---------------------------- MODULE Spec2Model ----------------------------
(***************************************************************************)
(* Task synchronisation and ordering of KiryoTaskManager4.                 *)
(*                                                                         *)
(* src/App.tsx holds two definitions of the App component (lines 11-475    *)
(* and 487-1052).  A build runs one of them; the variable app says which.  *)
(* The handlers of the second definition carry the suffix V2.              *)
(*                                                                         *)
(* The in-memory task list (React state `tasks`) and the remote sheet are  *)
(* sequences of task records.  Every await on the remote adapter is a      *)
(* suspension point: a handler action models the synchronous part of the   *)
(* handler and leaves a continuation in `pending`; the Land / Fail actions *)
(* model the completion of the remote call and the code that follows it.   *)
(***************************************************************************)
EXTENDS Integers, Sequences, FiniteSets, TLC

VARIABLES app, tasks, remote, pending, last, nops, npolls, cap, view, calendar,
          currentUser, timezoneOffset, isSignedIn, token, tokenClient,
          refreshResolver, requests, callers

(* the sign-in state of the App and the token state of sheetService *)
authVars == <<isSignedIn, token, tokenClient, refreshResolver, requests, callers>>

vars == <<app, tasks, remote, pending, last, nops, npolls, cap, view, calendar,
          currentUser, timezoneOffset, authVars>>

-----------------------------------------------------------------------------
(* Bounds *)

MaxOrder == 1
MaxOps == 1
MaxMoves == 2
MaxReorders == 1
MaxPolls == 1
MaxShift == 1
MaxDrags == 1
MaxDelta == 2

(* Program constants *)

DefaultOrder == 999999
BufferBefore == 7
BufferAfter == 14

-----------------------------------------------------------------------------
(* Data *)

NOT_STARTED == "NOT_STARTED"
IN_PROGRESS == "IN_PROGRESS"
COMPLETED == "COMPLETED"

Status == {NOT_STARTED, IN_PROGRESS, COMPLETED}

TaskIds == {"t1", "t2", "t3"}

BoardIds == {"t1", "t2"}

NewId == "t4"

None == "none"

Ghost == "ghost"

NoOrder == 0 - 1

CreatedAt == [i \in TaskIds \cup {NewId} |->
                CASE i = "t1" -> 1 [] i = "t2" -> 2 [] i = "t3" -> 3 [] OTHER -> 4]

InitialPred == [i \in TaskIds |->
                  CASE i = "t1" -> None [] i = "t2" -> "t1" [] OTHER -> Ghost]

OrderCells == (1 .. MaxOrder) \cup {NoOrder}

NewIndexes == (0 - 1) .. Cardinality(TaskIds)

DropIndexes == 0 .. 1

Min(a, b) == IF a < b THEN a ELSE b

Max(a, b) == IF a > b THEN a ELSE b

Range(s) == {s[i] : i \in DOMAIN s}

Ids(ts) == {ts[i].id : i \in DOMAIN ts}

(* the value of a failed lookup (undefined) *)
NoTask == [id |-> None, status |-> NOT_STARTED, order |-> 0, pred |-> None,
           createdAt |-> 0, startDate |-> 0, dueDate |-> 0,
         updatedAt |-> 0, calendarEventId |-> None, visibility |-> "public",
         assigneeEmail |-> "u1"]

(* a blank date cell *)
NoDate == 0

(* no bar is being dragged (dragState is null) *)
NoDrag == [taskId |-> None, type |-> "none", originalStart |-> NoDate,
           originalEnd |-> NoDate]

(* the chart before its first render *)
NoView == [shown |-> FALSE, rows |-> << >>, from |-> NoDate, to |-> NoDate,
           drag |-> NoDrag]

(* Array.prototype.findIndex: the first position with the id, 0 if none *)
findIndex(ts, id) ==
    IF \E i \in DOMAIN ts : ts[i].id = id
    THEN CHOOSE i \in DOMAIN ts :
               /\ ts[i].id = id
               /\ \A j \in DOMAIN ts : ts[j].id = id => i <= j
    ELSE 0

(* Array.prototype.find: the first element with the id, or NoTask *)
find(ts, id) == IF findIndex(ts, id) = 0 THEN NoTask ELSE ts[findIndex(ts, id)]

(* Array.prototype.sort is stable: elements that compare equal keep their   *)
(* relative position.  less holds the pairs of positions <<i, j>> whose     *)
(* elements the comparator puts in the order s[i] before s[j].              *)
StableSort(s, less) ==
    LET before(i, j) == <<i, j>> \in less \/ (<<j, i>> \notin less /\ i < j)
        rank(i) == 1 + Cardinality({j \in DOMAIN s : before(j, i)})
    IN  [k \in DOMAIN s |-> s[CHOOSE i \in DOMAIN s : rank(i) = k]]

(* a comparator with the operands exchanged *)
OrderGreater(a, b) == b.order < a.order

(* (a, b) => (a.order || 0) - (b.order || 0) *)
OrderLess(a, b) == a.order < b.order

SortByOrder(s) ==
    StableSort(s, {p \in (DOMAIN s) \X (DOMAIN s) : OrderLess(s[p[1]], s[p[2]])})

(* Array.prototype.splice(start, 0, x): a negative start counts from the    *)
(* end, and the start is capped to the array bounds.                        *)
SpliceStart(len, start) ==
    IF start < 0 THEN Max(len + start, 0) ELSE Min(start, len)

(* splice(start, 1, x): the element at the position is replaced *)
InsertReplacing(s, k, x) == SubSeq(s, 1, k) \o <<x>> \o SubSeq(s, k + 2, Len(s))

InsertAt(s, k, x) == SubSeq(s, 1, k) \o <<x>> \o SubSeq(s, k + 1, Len(s))

-----------------------------------------------------------------------------
(* sheetService *)

(* getTasks: a blank order cell reads as 0; rows are sorted by order        *)
(* ascending, then createdAt descending.                                    *)
ReadLess(a, b) ==
    \/ a.order < b.order
    \/ (a.order = b.order /\ a.createdAt > b.createdAt)

RowToTask(row) == [row EXCEPT !.order = IF row.order = NoOrder THEN 0 ELSE row.order]

getTasks(rows) ==
    LET read == [i \in DOMAIN rows |-> RowToTask(rows[i])]
    IN  StableSort(read, {p \in (DOMAIN read) \X (DOMAIN read) :
                              ReadLess(read[p[1]], read[p[2]])})

-----------------------------------------------------------------------------
(* App: predecessor gating *)

(* checkDependency of the first App *)
(* a check that also rejects a predecessor id that resolves to no task *)
checkDependencyFailClosed(task, ts) ==
    IF task.pred # None
    THEN IF task.status # NOT_STARTED
         THEN LET predecessor == find(ts, task.pred)
              IN  predecessor # NoTask /\ predecessor.status = COMPLETED
         ELSE TRUE
    ELSE TRUE

checkDependency(task, ts) ==
    IF task.pred # None
    THEN IF task.status # NOT_STARTED
         THEN LET predecessor == find(ts, task.pred)
              IN  ~(predecessor # NoTask /\ predecessor.status # COMPLETED)
         ELSE TRUE
    ELSE TRUE

(* the inline check of handleTaskMove / handleTaskReorder of the second App *)
PredecessorCheckV2(task, newStatus, ts) ==
    IF task # NoTask /\ task.pred # None /\ newStatus \in {IN_PROGRESS, COMPLETED}
    THEN LET predecessor == find(ts, task.pred)
         IN  ~(predecessor # NoTask /\ predecessor.status # COMPLETED)
    ELSE TRUE

-----------------------------------------------------------------------------
(* App: reordering *)

(* a renumbering that counts from 1 *)
RenumberFromOne(col) == [i \in DOMAIN col |-> [col[i] EXCEPT !.order = i]]

Renumber(col) == [i \in DOMAIN col |-> [col[i] EXCEPT !.order = i - 1]]

(* handleTaskReorder of the first App, steps 2: the new task list and the   *)
(* renumbered target column                                                 *)
ReorderV1(ts, taskId, newStatus, newIndex) ==
    LET draggedTask == find(ts, taskId)
        otherTasks == SelectSeq(ts, LAMBDA t : t.id # taskId)
        targetColumnTasks ==
            SortByOrder(SelectSeq(otherTasks, LAMBDA t : t.status = newStatus))
        safeIndex == IF newIndex < 0 THEN 0
                     ELSE IF newIndex > Len(targetColumnTasks)
                          THEN Len(targetColumnTasks) ELSE newIndex
        updatedDraggedTask == [draggedTask EXCEPT !.status = newStatus]
        updatedTargetColumn ==
            Renumber(InsertAt(targetColumnTasks, safeIndex, updatedDraggedTask))
        tasksInOtherColumns == SelectSeq(otherTasks, LAMBDA t : t.status # newStatus)
    IN  [all |-> SortByOrder(tasksInOtherColumns \o updatedTargetColumn),
         col |-> updatedTargetColumn]

(* handleTaskReorder of the second App, step 2 *)
ReorderV2(ts, taskId, newStatus, newIndex) ==
    LET movedTaskIndex == findIndex(ts, taskId)
        newTasks == SubSeq(ts, 1, movedTaskIndex - 1)
                    \o SubSeq(ts, movedTaskIndex + 1, Len(ts))
        movedTask == [ts[movedTaskIndex] EXCEPT !.status = newStatus]
        destColumnTasks ==
            SortByOrder(SelectSeq(newTasks, LAMBDA t : t.status = newStatus))
        updatedOrderTasks ==
            Renumber(InsertAt(destColumnTasks,
                              SpliceStart(Len(destColumnTasks), newIndex),
                              movedTask))
        otherTasks == SelectSeq(newTasks, LAMBDA t : t.status # newStatus)
    IN  [all |-> otherTasks \o updatedOrderTasks,
         col |-> updatedOrderTasks,
         moved |-> find(updatedOrderTasks, taskId)]

-----------------------------------------------------------------------------
(* State *)

NoCol == << >>

Done(op, id, st, idx, res) ==
    [op |-> op, id |-> id, st |-> st, idx |-> idx, res |-> res]

RowIds == [i \in 1 .. Cardinality(TaskIds) |-> CHOOSE t \in TaskIds : CreatedAt[t] = i]

(* the sheets with one row per id of ids, in id order *)
InitialRows(ids) ==
    {[i \in 1 .. Cardinality(ids) |->
        [id |-> RowIds[i], status |-> st[i], order |-> od[i],
         pred |-> InitialPred[RowIds[i]], createdAt |-> CreatedAt[RowIds[i]],
         startDate |-> 1, dueDate |-> 2,
         updatedAt |-> 0, calendarEventId |-> None, visibility |-> "public",
         assigneeEmail |-> "u1"]] :
      st \in [1 .. Cardinality(ids) -> Status],
      od \in [1 .. Cardinality(ids) -> OrderCells]}

(* a refresh in flight: the snapshot getTasks read, the list as it was      *)
(* before the mutation whose failure asked for the refresh, and the         *)
(* optimistic values whose remote write landed after the read               *)
Load(why, pre, rows) ==
    [k |-> "load", why |-> why, snap |-> getTasks(rows), pre |-> pre, missed |-> {}]

Missed(P, writes) ==
    {IF p.k = "load" THEN [p EXCEPT !.missed = @ \cup writes] ELSE p : p \in P}

(* a remote call in flight and what its handler needs after the await *)
Call(k, op, id, st, task, col, pre) ==
    [k |-> k, op |-> op, id |-> id, st |-> st, task |-> task, col |-> col, pre |-> pre,
     cal |-> "no"]

(* the ensureAuth calls that the model follows *)
Callers == {"c1", "c2"}

(* refreshResolver is the set of ensureAuth calls that the stored function   *)
(* resolves; a stored function resolves at least the call that stored it,   *)
(* null resolves none                                                       *)
Null == {}

(* the user is signed in with a valid token, no token request is in flight *)
InitAuth ==
    /\ isSignedIn = TRUE
    /\ token = "valid"
    /\ tokenClient = TRUE
    /\ refreshResolver = Null
    /\ requests = 0
    /\ callers = [c \in Callers |-> "idle"]

Init ==
    /\ app \in {1, 2}
    /\ tasks = << >>
    /\ remote \in InitialRows(BoardIds)
    /\ pending = {Load("signin", << >>, remote)}
    /\ last = Done("init", None, NOT_STARTED, 0, "ok")
    /\ nops = 0
    /\ view = NoView
    /\ calendar = {}
    /\ currentUser = "u1"
    /\ timezoneOffset = 0 - 540
    /\ InitAuth
    /\ npolls = 0
    /\ cap = [ops |-> MaxOps, polls |-> 0]

CanAct == nops < cap.ops

SetStatus(ts, id, st) ==
    [i \in DOMAIN ts |-> IF ts[i].id = id THEN [ts[i] EXCEPT !.status = st] ELSE ts[i]]

Replace(ts, task) ==
    [i \in DOMAIN ts |-> IF ts[i].id = task.id THEN task ELSE ts[i]]

Without(ts, id) == SelectSeq(ts, LAMBDA t : t.id # id)

(* the optimistic values a mutation wrote, as <<id, field, value>> *)
StatusValue(id, st) == {<<id, "status", st>>}

OrderValues(col) == {<<col[i].id, "order", col[i].order>> : i \in DOMAIN col}

DateValues(task) ==
    {<<task.id, "startDate", task.startDate>>, <<task.id, "dueDate", task.dueDate>>}

Field(t, f) ==
    CASE f = "status" -> t.status
      [] f = "order" -> t.order
      [] f = "startDate" -> t.startDate
      [] OTHER -> t.dueDate

Holds(ts, v) == \E i \in DOMAIN ts : ts[i].id = v[1] /\ Field(ts[i], v[2]) = v[3]

-----------------------------------------------------------------------------
(* loadData *)

(* the 30 second interval calls loadData; getTasks reads the sheet *)
loadData ==
    /\ isSignedIn
    /\ npolls < cap.polls
    /\ npolls' = npolls + 1
    /\ pending' = pending \cup {Load("poll", << >>, remote)}
    /\ last' = Done("loadData", None, NOT_STARTED, 0, "poll")
    /\ UNCHANGED <<authVars, app, calendar, currentUser, timezoneOffset, view, tasks, remote, nops, cap>>

(* a refresh that keeps the local copy of every task it already holds *)
LoadedMerge(snap) ==
    [i \in DOMAIN snap |->
        IF find(tasks, snap[i].id) # NoTask THEN find(tasks, snap[i].id) ELSE snap[i]]

(* what setTasks receives: the first App sorts the fetched list by order *)
Loaded(snap) == IF app = 1 THEN SortByOrder(snap) ELSE snap

(* a refresh that leaves alone the tasks that have a remote write in flight *)
loadDataDoneKeepInFlight ==
    \E l \in pending :
        /\ l.k = "load"
        /\ tasks' = [i \in DOMAIN l.snap |->
                        IF /\ find(tasks, l.snap[i].id) # NoTask
                           /\ \E c \in pending : c.k # "load" /\ c.id = l.snap[i].id
                        THEN find(tasks, l.snap[i].id)
                        ELSE l.snap[i]]
        /\ pending' = pending \ {l}
        /\ last' = Done("loadDataDone", None, NOT_STARTED, 0, l.why)
        /\ UNCHANGED <<authVars, app, calendar, currentUser, timezoneOffset, view, remote, nops, npolls, cap>>

(* the response arrives *)
loadDataDone ==
    \E l \in pending :
        /\ l.k = "load"
        /\ tasks' = Loaded(l.snap)
        /\ pending' = pending \ {l}
        /\ last' = Done("loadDataDone", None, NOT_STARTED, 0, l.why)
        /\ UNCHANGED <<authVars, app, calendar, currentUser, timezoneOffset, view, remote, nops, npolls, cap>>

(* the fetch fails: the catch block logs and leaves the list alone *)
loadDataFail ==
    \E l \in pending :
        /\ l.k = "load"
        /\ pending' = pending \ {l}
        /\ last' = Done("loadDataFail", None, NOT_STARTED, 0, l.why)
        /\ UNCHANGED <<authVars, app, calendar, currentUser, timezoneOffset, view, tasks, remote, nops, npolls, cap>>

-----------------------------------------------------------------------------
(* First App: handlers.  The board, the chart and the modal offer the tasks *)
(* of the in-memory list, so taskId names one of them.                      *)

(* a move that updates the list before it validates *)
handleTaskMoveEager(taskId, newStatus) ==
    LET task == find(tasks, taskId)
        ok == checkDependency([task EXCEPT !.status = newStatus], tasks)
    IN  /\ app = 1
        /\ CanAct
        /\ task # NoTask
        /\ nops' = nops + 1
        /\ tasks' = SetStatus(tasks, taskId, newStatus)
        /\ IF ~ok
           THEN /\ last' = Done("move", taskId, newStatus, 0, "rejected")
                /\ UNCHANGED pending
           ELSE /\ pending' = pending \cup
                     {Call("updateTaskStatus", "move", taskId, newStatus,
                           NoTask, NoCol, tasks)}
                /\ last' = Done("move", taskId, newStatus, 0, "ok")
        /\ UNCHANGED <<authVars, app, calendar, currentUser, timezoneOffset, view, remote, npolls, cap>>

handleTaskMove(taskId, newStatus) ==
    LET task == find(tasks, taskId)
        ok == checkDependency([task EXCEPT !.status = newStatus], tasks)
    IN  /\ app = 1
        /\ CanAct
        /\ task # NoTask
        /\ nops' = nops + 1
        /\ IF ~ok
           THEN /\ last' = Done("move", taskId, newStatus, 0, "rejected")
                /\ UNCHANGED <<tasks, pending>>
           ELSE /\ tasks' = SetStatus(tasks, taskId, newStatus)
                /\ pending' = pending \cup
                     {Call("updateTaskStatus", "move", taskId, newStatus,
                           NoTask, NoCol, tasks)}
                /\ last' = Done("move", taskId, newStatus, 0, "ok")
        /\ UNCHANGED <<authVars, app, calendar, currentUser, timezoneOffset, view, remote, npolls, cap>>

(* a reorder handler that sends the order batch first, whatever the status *)
handleTaskReorderOrdersFirst(taskId, newStatus, newIndex) ==
    LET draggedTask == find(tasks, taskId)
        ok == \/ draggedTask.status = newStatus
              \/ checkDependency([draggedTask EXCEPT !.status = newStatus], tasks)
        r == ReorderV1(tasks, taskId, newStatus, newIndex)
    IN  /\ app = 1
        /\ CanAct
        /\ draggedTask # NoTask
        /\ nops' = nops + 1
        /\ IF ~ok
           THEN /\ last' = Done("reorder", taskId, newStatus, newIndex, "rejected")
                /\ UNCHANGED <<tasks, pending>>
           ELSE /\ tasks' = r.all
                /\ pending' = pending \cup
                     {Call("updateTaskOrders", "reorder", taskId, newStatus, NoTask, r.col,
                           tasks)}
                /\ last' = Done("reorder", taskId, newStatus, newIndex, "ok")
        /\ UNCHANGED <<authVars, app, calendar, currentUser, timezoneOffset, view, remote, npolls, cap>>

handleTaskReorder(taskId, newStatus, newIndex) ==
    LET draggedTask == find(tasks, taskId)
        ok == \/ draggedTask.status = newStatus
              \/ checkDependency([draggedTask EXCEPT !.status = newStatus], tasks)
        r == ReorderV1(tasks, taskId, newStatus, newIndex)
    IN  /\ app = 1
        /\ CanAct
        /\ draggedTask # NoTask
        /\ nops' = nops + 1
        /\ IF ~ok
           THEN /\ last' = Done("reorder", taskId, newStatus, newIndex, "rejected")
                /\ UNCHANGED <<tasks, pending>>
           ELSE /\ tasks' = r.all
                /\ pending' = pending \cup
                     {Call(IF draggedTask.status # newStatus
                           THEN "updateTaskStatus" ELSE "updateTaskOrders",
                           "reorder", taskId, newStatus, NoTask, r.col, tasks)}
                /\ last' = Done("reorder", taskId, newStatus, newIndex, "ok")
        /\ UNCHANGED <<authVars, app, calendar, currentUser, timezoneOffset, view, remote, npolls, cap>>

(* the modal saves an edit of the task: taskData is the form's copy of the  *)
(* task with the status the user chose                                      *)
handleSaveTask(taskId, newStatus, addToCalendar) ==
    LET editingTask == find(tasks, taskId)
        taskData == [editingTask EXCEPT !.status = newStatus]
    IN  /\ app = 1
        /\ CanAct
        /\ editingTask # NoTask
        /\ nops' = nops + 1
        /\ IF ~checkDependency(taskData, tasks)
           THEN /\ last' = Done("save", taskId, newStatus, 0, "rejected")
                /\ UNCHANGED pending
           ELSE /\ pending' = pending \cup
                     {[Call("updateTask", "save", taskId, newStatus, taskData, NoCol, tasks)
                         EXCEPT !.cal = IF addToCalendar THEN "add" ELSE "no"]}
                /\ last' = Done("save", taskId, newStatus, 0, "ok")
        /\ UNCHANGED <<authVars, app, calendar, currentUser, timezoneOffset, view, tasks, remote, npolls, cap>>

maxOrder(ts) ==
    IF Len(ts) > 0
    THEN CHOOSE m \in {ts[i].order : i \in DOMAIN ts} :
            \A i \in DOMAIN ts : ts[i].order <= m
    ELSE 0

NewTask(newStatus, pred, order) ==
    [id |-> NewId, status |-> newStatus, order |-> order, pred |-> pred,
     createdAt |-> CreatedAt[NewId], startDate |-> 1, dueDate |-> 2,
         updatedAt |-> 0, calendarEventId |-> None, visibility |-> "public",
         assigneeEmail |-> "u1"]

CanCreate ==
    /\ findIndex(tasks, NewId) = 0
    /\ findIndex(remote, NewId) = 0
    /\ \A c \in pending : c.k # "createTask"

(* the modal saves a new task (editingTask is null) *)
handleSaveTaskCreate(newStatus, pred, addToCalendar) ==
    LET taskData == NewTask(newStatus, pred, maxOrder(tasks) + 1)
    IN  /\ app = 1
        /\ CanAct
        /\ CanCreate
        /\ nops' = nops + 1
        /\ IF ~checkDependency(taskData, tasks)
           THEN /\ last' = Done("create", NewId, newStatus, 0, "rejected")
                /\ UNCHANGED pending
           ELSE /\ pending' = pending \cup
                     {[Call("createTask", "create", NewId, newStatus, taskData, NoCol, tasks)
                         EXCEPT !.cal = IF addToCalendar THEN "add" ELSE "no"]}
                /\ last' = Done("create", NewId, newStatus, 0, "ok")
        /\ UNCHANGED <<authVars, app, calendar, currentUser, timezoneOffset, view, tasks, remote, npolls, cap>>

handleDeleteTask(taskId) ==
    /\ app = 1
    /\ CanAct
    /\ findIndex(tasks, taskId) # 0
    /\ nops' = nops + 1
    /\ pending' = pending \cup
         {Call("deleteTask", "delete", taskId, NOT_STARTED, NoTask, NoCol, tasks)}
    /\ last' = Done("delete", taskId, NOT_STARTED, 0, "ok")
    /\ UNCHANGED <<authVars, app, calendar, currentUser, timezoneOffset, view, tasks, remote, npolls, cap>>

(* the chart's onTaskUpdate (both Apps): a bar dragged by delta days *)
onTaskUpdate(taskId, delta) ==
    LET task == find(tasks, taskId)
        updatedTask == [task EXCEPT !.startDate = @ + delta, !.dueDate = @ + delta]
    IN  /\ CanAct
        /\ task # NoTask
        /\ nops' = nops + 1
        /\ tasks' = Replace(tasks, updatedTask)
        /\ pending' = pending \cup
             {Call("updateTask", "gantt", taskId, task.status, updatedTask, NoCol, tasks)}
        /\ last' = Done("gantt", taskId, task.status, 0, "ok")
        /\ UNCHANGED <<authVars, app, calendar, currentUser, timezoneOffset, view, remote, npolls, cap>>

-----------------------------------------------------------------------------
(* Second App: handlers *)

(* a move that waits for the remote write before it updates the list *)
handleTaskMoveV2WriteFirst(taskId, newStatus) ==
    LET task == find(tasks, taskId)
        ok == PredecessorCheckV2(task, newStatus, tasks)
    IN  /\ app = 2
        /\ CanAct
        /\ task # NoTask
        /\ nops' = nops + 1
        /\ IF ~ok
           THEN /\ last' = Done("move", taskId, newStatus, 0, "rejected")
                /\ UNCHANGED <<tasks, pending>>
           ELSE /\ UNCHANGED tasks
                /\ pending' = pending \cup
                     {Call("updateTaskStatus", "move", taskId, newStatus,
                           NoTask, NoCol, tasks)}
                /\ last' = Done("move", taskId, newStatus, 0, "ok")
        /\ UNCHANGED <<authVars, app, calendar, currentUser, timezoneOffset, view, remote, npolls, cap>>

handleTaskMoveV2(taskId, newStatus) ==
    LET task == find(tasks, taskId)
        ok == PredecessorCheckV2(task, newStatus, tasks)
    IN  /\ app = 2
        /\ CanAct
        /\ task # NoTask
        /\ nops' = nops + 1
        /\ IF ~ok
           THEN /\ last' = Done("move", taskId, newStatus, 0, "rejected")
                /\ UNCHANGED <<tasks, pending>>
           ELSE /\ tasks' = SetStatus(tasks, taskId, newStatus)
                /\ pending' = pending \cup
                     {Call("updateTaskStatus", "move", taskId, newStatus,
                           NoTask, NoCol, tasks)}
                /\ last' = Done("move", taskId, newStatus, 0, "ok")
        /\ UNCHANGED <<authVars, app, calendar, currentUser, timezoneOffset, view, remote, npolls, cap>>

handleTaskReorderV2(taskId, newStatus, newIndex) ==
    LET taskToCheck == find(tasks, taskId)
        ok == PredecessorCheckV2(taskToCheck, newStatus, tasks)
        r == ReorderV2(tasks, taskId, newStatus, newIndex)
    IN  /\ app = 2
        /\ CanAct
        /\ taskToCheck # NoTask
        /\ nops' = nops + 1
        /\ IF ~ok
           THEN /\ last' = Done("reorder", taskId, newStatus, newIndex, "rejected")
                /\ UNCHANGED <<tasks, pending>>
           ELSE /\ tasks' = r.all
                /\ pending' = pending \cup
                     {Call("updateTask", "reorder", taskId, newStatus, r.moved, r.col, tasks)}
                /\ last' = Done("reorder", taskId, newStatus, newIndex, "ok")
        /\ UNCHANGED <<authVars, app, calendar, currentUser, timezoneOffset, view, remote, npolls, cap>>

(* no predecessor check; the list is updated after the remote write *)
handleSaveTaskV2(taskId, newStatus, addToCalendar) ==
    LET editingTask == find(tasks, taskId)
        taskData == [editingTask EXCEPT !.status = newStatus]
    IN  /\ app = 2
        /\ CanAct
        /\ editingTask # NoTask
        /\ nops' = nops + 1
        /\ pending' = pending \cup
             {[Call("updateTask", "save", taskId, newStatus, taskData, NoCol, tasks)
                 EXCEPT !.cal = IF addToCalendar THEN "add" ELSE "no"]}
        /\ last' = Done("save", taskId, newStatus, 0, "ok")
        /\ UNCHANGED <<authVars, app, calendar, currentUser, timezoneOffset, view, tasks, remote, npolls, cap>>

(* createTask gives a task without order the default order *)
handleSaveTaskCreateV2(newStatus, pred, addToCalendar) ==
    /\ app = 2
    /\ CanAct
    /\ CanCreate
    /\ nops' = nops + 1
    /\ pending' = pending \cup
         {[Call("createTask", "create", NewId, newStatus,
                NewTask(newStatus, pred, DefaultOrder), NoCol, tasks)
             EXCEPT !.cal = IF addToCalendar THEN "add" ELSE "no"]}
    /\ last' = Done("create", NewId, newStatus, 0, "ok")
    /\ UNCHANGED <<authVars, app, calendar, currentUser, timezoneOffset, view, tasks, remote, npolls, cap>>

(* optimistic removal; originalTasks is kept for the revert *)
handleDeleteTaskV2(taskId) ==
    /\ app = 2
    /\ CanAct
    /\ findIndex(tasks, taskId) # 0
    /\ nops' = nops + 1
    /\ tasks' = Without(tasks, taskId)
    /\ pending' = pending \cup
         {Call("deleteTask", "delete", taskId, NOT_STARTED, NoTask, NoCol, tasks)}
    /\ last' = Done("delete", taskId, NOT_STARTED, 0, "ok")
    /\ UNCHANGED <<authVars, app, calendar, currentUser, timezoneOffset, view, remote, npolls, cap>>

-----------------------------------------------------------------------------
(* sheetService: completion of the remote calls, and the handler code that  *)
(* runs after the await                                                     *)

HasRow(rows, id) == findIndex(rows, id) # 0

(* new Date().toISOString(): the clock reads later than every stamp that    *)
(* the sheet holds                                                          *)
Now(rows) ==
    1 + (CHOOSE m \in {0} \cup {rows[i].updatedAt : i \in DOMAIN rows} :
            \A i \in DOMAIN rows : rows[i].updatedAt <= m)

(* updateTask and createTask stamp the task they write and return it *)
Stamped(rows, task) == [task EXCEPT !.updatedAt = Now(rows)]

(* updateTask: the row with the task's id is overwritten (order || 0) *)
WriteRow(rows, task) ==
    [i \in DOMAIN rows |-> IF rows[i].id = task.id THEN Stamped(rows, task) ELSE rows[i]]

(* updateTaskStatus: getTasks, find, updateTask({...task, status}) *)
WriteStatus(rows, id, st) ==
    WriteRow(rows, [find(getTasks(rows), id) EXCEPT !.status = st])

(* updateTaskOrders: one order cell per listed task that has a row *)
WriteOrders(rows, col) ==
    [i \in DOMAIN rows |->
        IF findIndex(col, rows[i].id) # 0
        THEN [rows[i] EXCEPT !.order = find(col, rows[i].id).order]
        ELSE rows[i]]

updateTaskStatusLand ==
    \E c \in pending :
        /\ c.k = "updateTaskStatus"
        /\ HasRow(remote, c.id)
        /\ remote' = WriteStatus(remote, c.id, c.st)
        /\ pending' =
             IF c.op = "reorder"
             THEN (pending \ {c}) \cup {[c EXCEPT !.k = "updateTaskOrders"]}
             ELSE Missed(pending \ {c}, StatusValue(c.id, c.st))
        /\ last' = Done("updateTaskStatusLand", c.id, c.st, 0, c.op)
        /\ UNCHANGED <<authVars, app, calendar, currentUser, timezoneOffset, view, tasks, nops, npolls, cap>>

(* the call throws (task not found, or a transport error): the catch block  *)
(* of the handler calls loadData                                            *)
updateTaskStatusFail ==
    \E c \in pending :
        /\ c.k = "updateTaskStatus"
        /\ pending' = (pending \ {c}) \cup {Load(c.op, c.pre, remote)}
        /\ last' = Done("updateTaskStatusFail", c.id, c.st, 0, c.op)
        /\ UNCHANGED <<authVars, app, calendar, currentUser, timezoneOffset, view, tasks, remote, nops, npolls, cap>>

updateTaskOrdersLand ==
    \E c \in pending :
        /\ c.k = "updateTaskOrders"
        /\ remote' = WriteOrders(remote, c.col)
        /\ pending' = Missed(pending \ {c}, StatusValue(c.id, c.st) \cup OrderValues(c.col))
        /\ last' = Done("updateTaskOrdersLand", c.id, c.st, 0, c.op)
        /\ UNCHANGED <<authVars, app, calendar, currentUser, timezoneOffset, view, tasks, nops, npolls, cap>>

updateTaskOrdersFail ==
    \E c \in pending :
        /\ c.k = "updateTaskOrders"
        /\ pending' = (pending \ {c}) \cup {Load(c.op, c.pre, remote)}
        /\ last' = Done("updateTaskOrdersFail", c.id, c.st, 0, c.op)
        /\ UNCHANGED <<authVars, app, calendar, currentUser, timezoneOffset, view, tasks, remote, nops, npolls, cap>>

(* the id of the event that calendar.events.insert returns for a task *)
EventIds == [i \in TaskIds \cup {NewId} |->
               CASE i = "t1" -> "e1" [] i = "t2" -> "e2" [] i = "t3" -> "e3" [] OTHER -> "e4"]

(* { ...updated, calendarEventId: event.id } *)
taskWithEvent(c) == [c.task EXCEPT !.calendarEventId = EventIds[c.id]]

(* the calendar block of handleSaveTask runs after the task was saved: the  *)
(* first App asks for addToCalendar only, the second App also for the dates *)
WantsCalendar(c, saved) ==
    /\ c.op \in {"save", "create"}
    /\ c.cal = "add"
    /\ (app = 1 \/ (saved.startDate # NoDate /\ saved.dueDate # NoDate))

(* setTasks of the second App after a save: the task replaces its old copy  *)
(* or is appended                                                           *)
ListWith(ts, c, task) == IF c.op = "create" THEN Append(ts, task) ELSE Replace(ts, task)

(* updateTask returns: a save of the first App reloads, a save of the       *)
(* second App puts the returned task in the list, a save that asked for a   *)
(* calendar event goes on to addToCalendar, a reorder of the second App     *)
(* goes on to updateTaskOrders; the write of the event id ends the save     *)
updateTaskLand ==
    \E c \in pending :
        /\ c.k = "updateTask"
        /\ HasRow(remote, c.id)
        /\ remote' = WriteRow(remote, IF c.cal = "added" THEN taskWithEvent(c) ELSE c.task)
        /\ tasks' =
             CASE c.cal = "added" /\ app = 2 -> ListWith(tasks, c, taskWithEvent(c))
               [] c.op = "save" /\ app = 2 /\ ~WantsCalendar(c, Stamped(remote, c.task)) ->
                    Replace(tasks, Stamped(remote, c.task))
               [] OTHER -> tasks
        /\ pending' =
             CASE c.op = "reorder" ->
                    (pending \ {c}) \cup {[c EXCEPT !.k = "updateTaskOrders"]}
               [] c.op = "gantt" -> Missed(pending \ {c}, DateValues(c.task))
               [] WantsCalendar(c, Stamped(remote, c.task)) ->
                    (pending \ {c}) \cup
                    {[c EXCEPT !.k = "addToCalendar", !.task = Stamped(remote, c.task)]}
               [] c.op \in {"save", "create"} /\ app = 1 ->
                    (pending \ {c}) \cup {Load("save", << >>, remote')}
               [] OTHER -> pending \ {c}
        /\ last' = Done("updateTaskLand", c.id, c.st, 0, c.op)
        /\ UNCHANGED <<authVars, app, calendar, currentUser, timezoneOffset, view, nops, npolls, cap>>

(* what handleSaveTask does when its calendar block throws: it alerts that  *)
(* the task was saved, then the first App calls loadData and the second     *)
(* App puts the saved task in the list                                      *)
CalendarErrorCaught(c) ==
    /\ tasks' = IF app = 2 THEN ListWith(tasks, c, c.task) ELSE tasks
    /\ pending' = IF app = 1
                  THEN (pending \ {c}) \cup {Load("save", << >>, remote)}
                  ELSE pending \ {c}

(* updateTask throws: a save alerts, a drag calls loadData; the write of    *)
(* the event id throws inside the calendar block                            *)
updateTaskFail ==
    \E c \in pending :
        /\ c.k = "updateTask"
        /\ IF c.cal = "added"
           THEN CalendarErrorCaught(c)
           ELSE /\ pending' = IF c.op = "save" THEN pending \ {c}
                              ELSE (pending \ {c}) \cup {Load(c.op, c.pre, remote)}
                /\ UNCHANGED tasks
        /\ last' = Done("updateTaskFail", c.id, c.st, 0, c.op)
        /\ UNCHANGED <<authVars, app, calendar, currentUser, timezoneOffset, view, remote, nops, npolls, cap>>

(* calendar.events.insert returns the event: its id is written to the task *)
addToCalendarLand ==
    \E c \in pending :
        /\ c.k = "addToCalendar"
        /\ c.task.startDate # NoDate
        /\ c.task.dueDate # NoDate
        /\ calendar' = calendar \cup {EventIds[c.id]}
        /\ pending' = (pending \ {c}) \cup {[c EXCEPT !.k = "updateTask", !.cal = "added"]}
        /\ last' = Done("addToCalendarLand", c.id, c.st, 0, c.op)
        /\ UNCHANGED <<authVars, app, currentUser, timezoneOffset, view, tasks, remote, nops, npolls, cap>>

(* addToCalendar throws (no dates, or the insert failed) *)
addToCalendarFail ==
    \E c \in pending :
        /\ c.k = "addToCalendar"
        /\ CalendarErrorCaught(c)
        /\ last' = Done("addToCalendarFail", c.id, c.st, 0, c.op)
        /\ UNCHANGED <<authVars, app, calendar, currentUser, timezoneOffset, view, remote, nops, npolls, cap>>

createTaskLand ==
    \E c \in pending :
        /\ c.k = "createTask"
        /\ remote' = Append(remote, Stamped(remote, c.task))
        /\ tasks' = IF app = 2 /\ ~WantsCalendar(c, Stamped(remote, c.task))
                    THEN Append(tasks, Stamped(remote, c.task)) ELSE tasks
        /\ pending' =
             CASE WantsCalendar(c, Stamped(remote, c.task)) ->
                    (pending \ {c}) \cup
                    {[c EXCEPT !.k = "addToCalendar", !.task = Stamped(remote, c.task)]}
               [] app = 1 -> (pending \ {c}) \cup {Load("save", << >>, remote')}
               [] OTHER -> pending \ {c}
        /\ last' = Done("createTaskLand", c.id, c.st, 0, c.op)
        /\ UNCHANGED <<authVars, app, calendar, currentUser, timezoneOffset, view, nops, npolls, cap>>

createTaskFail ==
    \E c \in pending :
        /\ c.k = "createTask"
        /\ pending' = pending \ {c}
        /\ last' = Done("createTaskFail", c.id, c.st, 0, c.op)
        /\ UNCHANGED <<authVars, app, calendar, currentUser, timezoneOffset, view, tasks, remote, nops, npolls, cap>>

(* deleteTask found the row and the task has an event: removeFromCalendar   *)
(* returns (the event is deleted, or was already gone)                      *)
removeFromCalendarLand ==
    \E c \in pending :
        /\ c.k = "deleteTask"
        /\ c.cal = "no"
        /\ HasRow(remote, c.id)
        /\ find(getTasks(remote), c.id).calendarEventId # None
        /\ calendar' = calendar \ {find(getTasks(remote), c.id).calendarEventId}
        /\ pending' = (pending \ {c}) \cup {[c EXCEPT !.cal = "removed"]}
        /\ last' = Done("removeFromCalendarLand", c.id, c.st, 0, c.op)
        /\ UNCHANGED <<authVars, app, currentUser, timezoneOffset, view, tasks, remote, nops, npolls, cap>>

(* a deleteTask that lets the error of removeFromCalendar escape: the        *)
(* handler's catch block runs                                               *)
removeFromCalendarFailThrows ==
    \E c \in pending :
        /\ c.k = "deleteTask"
        /\ c.cal = "no"
        /\ HasRow(remote, c.id)
        /\ find(getTasks(remote), c.id).calendarEventId # None
        /\ tasks' = IF app = 2 THEN c.pre ELSE tasks
        /\ pending' = IF app = 2
                      THEN (pending \ {c}) \cup {Load("delete", c.pre, remote)}
                      ELSE pending \ {c}
        /\ last' = Done("removeFromCalendarFail", c.id, c.st, 0, c.op)
        /\ UNCHANGED <<authVars, app, calendar, currentUser, timezoneOffset, view, remote, nops, npolls, cap>>

(* removeFromCalendar throws: deleteTask warns and goes on *)
removeFromCalendarFail ==
    \E c \in pending :
        /\ c.k = "deleteTask"
        /\ c.cal = "no"
        /\ HasRow(remote, c.id)
        /\ find(getTasks(remote), c.id).calendarEventId # None
        /\ pending' = (pending \ {c}) \cup {[c EXCEPT !.cal = "warned"]}
        /\ last' = Done("removeFromCalendarFail", c.id, c.st, 0, c.op)
        /\ UNCHANGED <<authVars, app, calendar, currentUser, timezoneOffset, view, tasks, remote, nops, npolls, cap>>

(* the row is deleted once the event of the task, if it has one, was dealt  *)
(* with                                                                     *)
deleteTaskLand ==
    \E c \in pending :
        /\ c.k = "deleteTask"
        /\ HasRow(remote, c.id)
        /\ find(getTasks(remote), c.id).calendarEventId = None \/ c.cal # "no"
        /\ remote' = Without(remote, c.id)
        /\ pending' = IF app = 1
                      THEN (pending \ {c}) \cup {Load("delete", << >>, remote')}
                      ELSE pending \ {c}
        /\ last' = Done("deleteTaskLand", c.id, c.st, 0, c.op)
        /\ UNCHANGED <<authVars, app, calendar, currentUser, timezoneOffset, view, tasks, nops, npolls, cap>>

(* deleteTask throws: the first App alerts; the second App puts             *)
(* originalTasks back and calls loadData                                    *)
deleteTaskFail ==
    \E c \in pending :
        /\ c.k = "deleteTask"
        /\ tasks' = IF app = 2 THEN c.pre ELSE tasks
        /\ pending' = IF app = 2
                      THEN (pending \ {c}) \cup {Load("delete", c.pre, remote)}
                      ELSE pending \ {c}
        /\ last' = Done("deleteTaskFail", c.id, c.st, 0, c.op)
        /\ UNCHANGED <<authVars, app, calendar, currentUser, timezoneOffset, view, remote, nops, npolls, cap>>

-----------------------------------------------------------------------------
(* The application *)

Remote ==
    \/ updateTaskStatusLand
    \/ updateTaskStatusFail
    \/ updateTaskOrdersLand
    \/ updateTaskOrdersFail
    \/ updateTaskLand
    \/ updateTaskFail
    \/ createTaskLand
    \/ createTaskFail
    \/ deleteTaskLand
    \/ deleteTaskFail

Next ==
    \/ loadDataDone
    \/ loadDataFail
    \/ \E id \in TaskIds, st \in Status : handleTaskMove(id, st)
    \/ \E id \in TaskIds, st \in Status, ix \in DropIndexes : handleTaskReorder(id, st, ix)
    \/ \E id \in TaskIds, st \in Status : handleSaveTask(id, st, FALSE)
    \/ \E st \in Status, p \in {None, "t1"} : handleSaveTaskCreate(st, p, FALSE)
    \/ \E id \in TaskIds : handleDeleteTask(id)
    \/ \E id \in TaskIds, d \in 1 .. MaxShift : onTaskUpdate(id, d)
    \/ \E id \in TaskIds, st \in Status : handleTaskMoveV2(id, st)
    \/ \E id \in TaskIds, st \in Status, ix \in DropIndexes : handleTaskReorderV2(id, st, ix)
    \/ \E id \in TaskIds, st \in Status : handleSaveTaskV2(id, st, FALSE)
    \/ \E st \in Status, p \in {None, "t1"} : handleSaveTaskCreateV2(st, p, FALSE)
    \/ \E id \in TaskIds : handleDeleteTaskV2(id)
    \/ Remote

Spec == Init /\ [][Next]_vars

(* Status moves of the board racing with the interval refresh *)
InitMoves ==
    /\ app \in {1, 2}
    /\ tasks = << >>
    /\ remote \in InitialRows(BoardIds)
    /\ pending = {Load("signin", << >>, remote)}
    /\ last = Done("init", None, NOT_STARTED, 0, "ok")
    /\ nops = 0
    /\ view = NoView
    /\ calendar = {}
    /\ currentUser = "u1"
    /\ timezoneOffset = 0 - 540
    /\ InitAuth
    /\ npolls = 0
    /\ cap = [ops |-> MaxMoves, polls |-> MaxPolls]

NextMoves ==
    \/ loadData
    \/ loadDataDone
    \/ loadDataFail
    \/ \E id \in TaskIds, st \in Status : handleTaskMove(id, st)
    \/ \E id \in TaskIds, st \in Status : handleTaskMoveV2(id, st)
    \/ updateTaskStatusLand
    \/ updateTaskStatusFail

SpecMoves == InitMoves /\ [][NextMoves]_vars

(* The reorder handlers on every loaded board of three tasks and every      *)
(* drop index                                                               *)
InitReorder ==
    /\ app \in {1, 2}
    /\ remote \in InitialRows(TaskIds)
    /\ tasks = Loaded(getTasks(remote))
    /\ pending = {}
    /\ last = Done("init", None, NOT_STARTED, 0, "ok")
    /\ nops = 0
    /\ view = NoView
    /\ calendar = {}
    /\ currentUser = "u1"
    /\ timezoneOffset = 0 - 540
    /\ InitAuth
    /\ npolls = 0
    /\ cap = [ops |-> MaxReorders, polls |-> 0]

NextReorder ==
    \/ \E id \in TaskIds, st \in Status, ix \in NewIndexes : handleTaskReorder(id, st, ix)
    \/ \E id \in TaskIds, st \in Status, ix \in NewIndexes : handleTaskReorderV2(id, st, ix)

SpecReorder == InitReorder /\ [][NextReorder]_vars

(* Writes whose target another client has deleted *)

(* another client deletes the row of the task (its own deleteTask) *)
deleteTaskByOtherClient(taskId) ==
    /\ HasRow(remote, taskId)
    /\ Len(remote) = Cardinality(BoardIds)
    /\ remote' = Without(remote, taskId)
    /\ last' = Done("deleteTaskByOtherClient", taskId, NOT_STARTED, 0, "ok")
    /\ UNCHANGED <<authVars, app, calendar, currentUser, timezoneOffset, view, tasks, pending, nops, npolls, cap>>

NextNotFound ==
    \/ Next
    \/ \E id \in BoardIds : deleteTaskByOtherClient(id)

SpecNotFound == Init /\ [][NextNotFound]_vars

(* Creating a task in a list that was loaded from a sheet; createTask      *)
(* wrote the order cells that hold DefaultOrder                            *)
CreatedRows ==
    {[i \in 1 .. Cardinality(BoardIds) |->
        [id |-> RowIds[i], status |-> st[i], order |-> od[i],
         pred |-> InitialPred[RowIds[i]], createdAt |-> CreatedAt[RowIds[i]],
         startDate |-> 1, dueDate |-> 2,
         updatedAt |-> 0, calendarEventId |-> None, visibility |-> "public",
         assigneeEmail |-> "u1"]] :
      st \in [1 .. Cardinality(BoardIds) -> Status],
      od \in [1 .. Cardinality(BoardIds) -> OrderCells \cup {DefaultOrder}]}

InitCreate ==
    /\ app \in {1, 2}
    /\ remote \in CreatedRows
    /\ tasks = Loaded(getTasks(remote))
    /\ pending = {}
    /\ last = Done("init", None, NOT_STARTED, 0, "ok")
    /\ nops = 0
    /\ view = NoView
    /\ calendar = {}
    /\ currentUser = "u1"
    /\ timezoneOffset = 0 - 540
    /\ InitAuth
    /\ npolls = 0
    /\ cap = [ops |-> MaxOps, polls |-> 0]

NextCreate ==
    \/ loadDataDone
    \/ loadDataFail
    \/ \E st \in Status, p \in {None, "t1"} : handleSaveTaskCreate(st, p, FALSE)
    \/ \E st \in Status, p \in {None, "t1"} : handleSaveTaskCreateV2(st, p, FALSE)
    \/ createTaskLand
    \/ createTaskFail

SpecCreate == InitCreate /\ [][NextCreate]_vars

-----------------------------------------------------------------------------
(* GanttChart *)

(* the day new Date() gives *)
Today == 10

DragTypes == {"left", "right", "move"}

(* the width of a day column, in pixels *)
colWidth == 40

(* mouse offsets, in pixels: half columns up to MaxDelta columns each way *)
DragOffsets == {20 * k : k \in (0 - 2 * MaxDelta) .. (2 * MaxDelta)}

(* Math.round(n / d) for d > 0: the nearest integer, a half goes up *)
MathRound(n, d) == (2 * n + d) \div (2 * d)

(* Date.getTimezoneOffset(), in minutes: Asia/Tokyo and America/New_York *)
TimezoneOffsets == {0 - 540, 300}

(* new Date('YYYY-MM-DD') is midnight UTC of that day; getDate, setDate and  *)
(* formatDateForInput read the instant in local time, where it is still the *)
(* day before when the zone is behind UTC                                   *)
LocalDay(day) == IF timezoneOffset > 0 THEN day - 1 ELSE day

(* t.startDate && t.dueDate *)
hasDates(t) == t.startDate # NoDate /\ t.dueDate # NoDate

validTasks(ts) == SelectSeq(ts, hasDates)

(* (a, b) => (a.startDate || '').localeCompare(b.startDate || '') *)
StartLess(a, b) == a.startDate < b.startDate

SortByStart(s) ==
    StableSort(s, {p \in (DOMAIN s) \X (DOMAIN s) : StartLess(s[p[1]], s[p[2]])})

(* roots that leave out every task with a predecessor id *)
rootsWithoutPredecessor(valid) ==
    SortByStart(SelectSeq(valid, LAMBDA t : t.pred = None))

(* t.predecessorTaskId && taskMap.has(t.predecessorTaskId) *)
hasParent(t, valid) == t.pred # None /\ findIndex(valid, t.pred) # 0

roots(valid) ==
    SortByStart(SelectSeq(valid, LAMBDA t : ~hasParent(t, valid)))

(* adjacency.get(id), mapped to tasks and sorted by start date *)
children(id, valid) ==
    SortByStart(SelectSeq(valid, LAMBDA t : hasParent(t, valid) /\ t.pred = id))

RECURSIVE visit(_, _, _)
RECURSIVE visitEach(_, _, _)

(* visit: result holds the visited tasks, in the order they were pushed *)
visit(t, valid, result) ==
    IF findIndex(result, t.id) # 0
    THEN result
    ELSE visitEach(children(t.id, valid), valid, Append(result, t))

(* list.forEach(visit) *)
visitEach(list, valid, result) ==
    IF list = << >>
    THEN result
    ELSE visitEach(Tail(list), valid, visit(Head(list), valid, result))

(* the tasks the traversal from the roots reaches *)
flattened(valid) == visitEach(roots(valid), valid, << >>)

(* a projection that forgets the tasks the traversal did not reach *)
sortedValidTasksReached(ts) == flattened(validTasks(ts))

sortedValidTasks(ts) ==
    LET valid == validTasks(ts)
        result == flattened(valid)
    IN  result \o SelectSeq(valid, LAMBDA t : findIndex(result, t.id) = 0)

(* timelineData: the first and the last day of the dates array *)
timelineData(ts, now) ==
    IF Len(ts) = 0
    THEN [from |-> now, to |-> now]
    ELSE LET dated == validTasks(ts)
             min == IF dated = << >> THEN now
                    ELSE CHOOSE d \in {dated[i].startDate : i \in DOMAIN dated} :
                           \A i \in DOMAIN dated : d <= dated[i].startDate
             max == IF dated = << >> THEN now
                    ELSE CHOOSE d \in {dated[i].dueDate : i \in DOMAIN dated} :
                           \A i \in DOMAIN dated : d >= dated[i].dueDate
         IN  [from |-> min - BufferBefore, to |-> max + BufferAfter]

(* what the chart shows for the task list ts *)
Rendered(ts) ==
    [shown |-> TRUE, rows |-> sortedValidTasks(ts),
     from |-> timelineData(ts, Today).from, to |-> timelineData(ts, Today).to,
     drag |-> view.drag]

(* the component renders with the current tasks prop *)
GanttChart ==
    /\ view # Rendered(tasks)
    /\ view' = Rendered(tasks)
    /\ last' = Done("render", None, NOT_STARTED, 0, "ok")
    /\ UNCHANGED <<authVars, app, calendar, currentUser, timezoneOffset, tasks, remote, pending, nops, npolls, cap>>

(* the mouse goes down on a bar (move) or on one of its handles *)
handleMouseDown(taskId, type) ==
    LET task == find(view.rows, taskId)
    IN  /\ view.shown
        /\ view.drag = NoDrag
        /\ CanAct
        /\ task # NoTask
        /\ hasDates(task)
        /\ view' = [view EXCEPT !.drag =
                       [taskId |-> taskId, type |-> type,
                        originalStart |-> task.startDate,
                        originalEnd |-> task.dueDate]]
        /\ last' = Done("mousedown", taskId, task.status, 0, "ok")
        /\ UNCHANGED <<authVars, app, calendar, currentUser, timezoneOffset, tasks, remote, pending, nops, npolls, cap>>

(* a mouse-up that commits without comparing the new dates *)
handleMouseUpUnchecked(dragOffset) ==
    LET dragState == view.drag
        daysDelta == MathRound(dragOffset, colWidth)
        task == find(tasks, dragState.taskId)
        newStart == IF dragState.type \in {"move", "left"}
                    THEN LocalDay(dragState.originalStart) + daysDelta
                    ELSE LocalDay(dragState.originalStart)
        newEnd == IF dragState.type \in {"move", "right"}
                  THEN LocalDay(dragState.originalEnd) + daysDelta
                  ELSE LocalDay(dragState.originalEnd)
        updatedTask == [task EXCEPT !.startDate = newStart, !.dueDate = newEnd]
    IN  /\ dragState # NoDrag
        /\ view' = [view EXCEPT !.drag = NoDrag]
        /\ nops' = nops + 1
        /\ IF daysDelta # 0 /\ task # NoTask
           THEN /\ tasks' = Replace(tasks, updatedTask)
                /\ pending' = pending \cup
                     {Call("updateTask", "gantt", task.id, task.status, updatedTask,
                           NoCol, tasks)}
                /\ last' = Done("gantt", task.id, task.status, dragOffset, "ok")
           ELSE /\ last' = Done("gantt", dragState.taskId, NOT_STARTED, dragOffset,
                                "discarded")
                /\ UNCHANGED <<tasks, pending>>
        /\ UNCHANGED <<authVars, app, calendar, currentUser, timezoneOffset, remote, npolls, cap>>

(* the mouse goes up daysDelta columns away; onTaskUpdate is the App's      *)
(* callback: the inline one of the first App, handleDirectUpdate of the     *)
(* second                                                                   *)
handleMouseUp(dragOffset) ==
    LET dragState == view.drag
        daysDelta == MathRound(dragOffset, colWidth)
        task == find(tasks, dragState.taskId)
        newStart == IF dragState.type \in {"move", "left"}
                    THEN LocalDay(dragState.originalStart) + daysDelta
                    ELSE LocalDay(dragState.originalStart)
        newEnd == IF dragState.type \in {"move", "right"}
                  THEN LocalDay(dragState.originalEnd) + daysDelta
                  ELSE LocalDay(dragState.originalEnd)
        updatedTask == [task EXCEPT !.startDate = newStart, !.dueDate = newEnd]
    IN  /\ dragState # NoDrag
        /\ view' = [view EXCEPT !.drag = NoDrag]
        /\ nops' = nops + 1
        /\ IF daysDelta # 0 /\ task # NoTask /\ newStart <= newEnd
           THEN /\ tasks' = Replace(tasks, updatedTask)
                /\ pending' = pending \cup
                     {Call("updateTask", "gantt", task.id, task.status, updatedTask,
                           NoCol, tasks)}
                /\ last' = Done("gantt", task.id, task.status, dragOffset, "ok")
           ELSE /\ last' = Done("gantt", dragState.taskId, NOT_STARTED, dragOffset,
                                "discarded")
                /\ UNCHANGED <<tasks, pending>>
        /\ UNCHANGED <<authVars, app, calendar, currentUser, timezoneOffset, remote, npolls, cap>>

GanttPreds ==
    [t1 : {None, "t1", "t2"}, t2 : {None, "t1"}, t3 : {None, "t1", "t2", Ghost}]

GanttDates == {<<NoDate, 2>>, <<1, NoDate>>, <<1, 1>>, <<2, 3>>}

(* the sheets the chart is drawn from: no row, or one row per task id *)
GanttRows ==
    {<< >>} \cup
    {[i \in 1 .. Cardinality(TaskIds) |->
        [id |-> RowIds[i], status |-> NOT_STARTED, order |-> NoOrder,
         pred |-> pr[RowIds[i]], createdAt |-> CreatedAt[RowIds[i]],
         startDate |-> dt[i][1], dueDate |-> dt[i][2],
         updatedAt |-> 0, calendarEventId |-> None, visibility |-> "public",
         assigneeEmail |-> "u1"]] :
      pr \in GanttPreds, dt \in [1 .. Cardinality(TaskIds) -> GanttDates]}

InitGantt ==
    /\ app \in {1, 2}
    /\ remote \in GanttRows
    /\ tasks = Loaded(getTasks(remote))
    /\ pending = {}
    /\ last = Done("init", None, NOT_STARTED, 0, "ok")
    /\ nops = 0
    /\ view = NoView
    /\ calendar = {}
    /\ currentUser = "u1"
    /\ timezoneOffset \in TimezoneOffsets
    /\ InitAuth
    /\ npolls = 0
    /\ cap = [ops |-> MaxDrags, polls |-> 0]

NextGantt ==
    \/ GanttChart
    \/ \E id \in TaskIds, ty \in DragTypes : handleMouseDown(id, ty)
    \/ \E d \in DragOffsets : handleMouseUp(d)

SpecGantt == InitGantt /\ [][NextGantt]_vars

-----------------------------------------------------------------------------
(* Visibility: what each screen receives from the task store *)

Users == {"u1", "u2"}

UserList == <<"u1", "u2">>

Visibilities == {"public", "private"}

ViewModes == {"LIST", "KANBAN", "GANTT"}

(* task.visibility !== 'private' || (currentUser &&                         *)
(* task.assigneeEmail === currentUser.email)                                *)
isVisible(task) ==
    task.visibility # "private" \/ (currentUser # None /\ task.assigneeEmail = currentUser)

(* the search box and the filter selects are empty: every task matches them *)
filteredTasks(ts) == SelectSeq(ts, isVisible)

Screen(rows) == [NoView EXCEPT !.shown = TRUE, !.rows = rows]

(* the list, the board and the chart receive filteredTasks *)
renderView(viewMode) ==
    /\ view' = Screen(filteredTasks(tasks))
    /\ last' = Done(viewMode, None, NOT_STARTED, Len(filteredTasks(tasks)), "ok")
    /\ UNCHANGED <<authVars, app, calendar, currentUser, timezoneOffset, tasks, remote, pending, nops, npolls, cap>>

(* tasks.filter(t => t.assigneeEmail === user.email) *)
userTasks(ts, user) ==
    LET assigned(t) == t.assigneeEmail = user
    IN  SelectSeq(ts, assigned)

(* one row of counts per user *)
stats(ts) ==
    [u \in Users |->
        LET active(t) == t.status # COMPLETED
            completed(t) == t.status = COMPLETED
        IN  [activeCount |-> Len(SelectSeq(userTasks(ts, u), active)),
             completedCount |-> Len(SelectSeq(userTasks(ts, u), completed)),
             totalAssigned |-> Len(userTasks(ts, u))]]

(* the dashboard receives the tasks of the store and counts them per user;  *)
(* the screen holds the tasks that the counts cover                         *)
Dashboard ==
    /\ view' = Screen(userTasks(tasks, UserList[1]) \o userTasks(tasks, UserList[2]))
    /\ last' = Done("DASHBOARD", None, NOT_STARTED,
                    stats(tasks)[UserList[1]].totalAssigned
                      + stats(tasks)[UserList[2]].totalAssigned, "ok")
    /\ UNCHANGED <<authVars, app, calendar, currentUser, timezoneOffset, tasks, remote, pending, nops, npolls, cap>>

(* the modal receives allTasks = tasks; hits are the tasks whose title       *)
(* contains the text typed in the predecessor search box                    *)
filteredPredecessorCandidates(allTasks, task, hits) ==
    LET candidate(t) == /\ ~(task # NoTask /\ t.id = task.id)
                        /\ t.id # task.pred
                        /\ t.id \in hits
        found == SelectSeq(allTasks, candidate)
    IN  SubSeq(found, 1, Min(5, Len(found)))

(* openModal on a task of the screen (or for a new task), then a search *)
TaskModal(taskId, hits) ==
    LET task == find(filteredTasks(tasks), taskId)
    IN  /\ taskId # None => task # NoTask
        /\ hits # {}
        /\ view' = Screen(filteredPredecessorCandidates(tasks, task, hits))
        /\ last' = Done("MODAL", taskId, NOT_STARTED, 0, "ok")
        /\ UNCHANGED <<authVars, app, calendar, currentUser, timezoneOffset, tasks, remote, pending, nops, npolls, cap>>

PrivacyRows ==
    {[i \in 1 .. Cardinality(TaskIds) |->
        [id |-> RowIds[i], status |-> NOT_STARTED, order |-> NoOrder,
         pred |-> InitialPred[RowIds[i]], createdAt |-> CreatedAt[RowIds[i]],
         startDate |-> 1, dueDate |-> 2,
         updatedAt |-> 0, calendarEventId |-> None, visibility |-> vs[i],
         assigneeEmail |-> as[i]]] :
      vs \in [1 .. Cardinality(TaskIds) -> Visibilities],
      as \in [1 .. Cardinality(TaskIds) -> Users]}

InitPrivacy ==
    /\ app \in {1, 2}
    /\ remote \in PrivacyRows
    /\ tasks = Loaded(getTasks(remote))
    /\ pending = {}
    /\ last = Done("init", None, NOT_STARTED, 0, "ok")
    /\ nops = 0
    /\ view = NoView
    /\ calendar = {}
    /\ currentUser \in Users
    /\ timezoneOffset = 0 - 540
    /\ InitAuth
    /\ npolls = 0
    /\ cap = [ops |-> 0, polls |-> 0]

NextPrivacy ==
    \/ \E m \in ViewModes : renderView(m)
    \/ Dashboard
    \/ \E id \in TaskIds \cup {None}, hits \in SUBSET TaskIds : TaskModal(id, hits)

SpecPrivacy == InitPrivacy /\ [][NextPrivacy]_vars

-----------------------------------------------------------------------------
(* Calendar: saves that ask for an event, deletes of tasks that have one *)

CalendarDates == {<<1, 2>>, <<NoDate, 2>>}

CalendarRows ==
    {[i \in 1 .. Cardinality(BoardIds) |->
        [id |-> RowIds[i], status |-> NOT_STARTED, order |-> NoOrder,
         pred |-> None, createdAt |-> CreatedAt[RowIds[i]],
         startDate |-> dt[i][1], dueDate |-> dt[i][2],
         updatedAt |-> 0,
         calendarEventId |-> IF ev[i] THEN EventIds[RowIds[i]] ELSE None,
         visibility |-> "public", assigneeEmail |-> "u1"]] :
      dt \in [1 .. Cardinality(BoardIds) -> CalendarDates],
      ev \in [1 .. Cardinality(BoardIds) -> BOOLEAN]}

(* the events of the tasks are in the calendar unless the user removed them *)
InitCalendar ==
    /\ app \in {1, 2}
    /\ remote \in CalendarRows
    /\ tasks = Loaded(getTasks(remote))
    /\ pending = {}
    /\ last = Done("init", None, NOT_STARTED, 0, "ok")
    /\ nops = 0
    /\ view = NoView
    /\ calendar \in SUBSET {remote[i].calendarEventId : i \in DOMAIN remote}
    /\ None \notin calendar
    /\ currentUser = "u1"
    /\ timezoneOffset = 0 - 540
    /\ InitAuth
    /\ npolls = 0
    /\ cap = [ops |-> MaxOps, polls |-> 0]

NextCalendar ==
    \/ loadDataDone
    \/ loadDataFail
    \/ \E id \in BoardIds, st \in Status, a \in BOOLEAN : handleSaveTask(id, st, a)
    \/ \E st \in Status, a \in BOOLEAN : handleSaveTaskCreate(st, None, a)
    \/ \E id \in BoardIds : handleDeleteTask(id)
    \/ \E id \in BoardIds, st \in Status, a \in BOOLEAN : handleSaveTaskV2(id, st, a)
    \/ \E st \in Status, a \in BOOLEAN : handleSaveTaskCreateV2(st, None, a)
    \/ \E id \in BoardIds : handleDeleteTaskV2(id)
    \/ updateTaskLand
    \/ updateTaskFail
    \/ createTaskLand
    \/ createTaskFail
    \/ addToCalendarLand
    \/ addToCalendarFail
    \/ removeFromCalendarLand
    \/ removeFromCalendarFail
    \/ deleteTaskLand
    \/ deleteTaskFail

SpecCalendar == InitCalendar /\ [][NextCalendar]_vars

-----------------------------------------------------------------------------
(* Moves and reorders in a row on a loaded board whose order cells are blank *)

MaxDrops == 3

TieRows ==
    {[i \in 1 .. Cardinality(TaskIds) |->
        [id |-> RowIds[i], status |-> st[i], order |-> NoOrder,
         pred |-> None, createdAt |-> CreatedAt[RowIds[i]],
         startDate |-> 1, dueDate |-> 2,
         updatedAt |-> 0, calendarEventId |-> None, visibility |-> "public",
         assigneeEmail |-> "u1"]] :
      st \in [1 .. Cardinality(TaskIds) -> {NOT_STARTED, IN_PROGRESS}]}

InitTies ==
    /\ app \in {1, 2}
    /\ remote \in TieRows
    /\ tasks = Loaded(getTasks(remote))
    /\ pending = {}
    /\ last = Done("init", None, NOT_STARTED, 0, "ok")
    /\ nops = 0
    /\ view = NoView
    /\ calendar = {}
    /\ currentUser = "u1"
    /\ timezoneOffset = 0 - 540
    /\ InitAuth
    /\ npolls = 0
    /\ cap = [ops |-> MaxDrops, polls |-> 0]

NextTies ==
    \/ \E id \in TaskIds, st \in {NOT_STARTED, IN_PROGRESS} : handleTaskMove(id, st)
    \/ \E id \in TaskIds, st \in {NOT_STARTED, IN_PROGRESS}, ix \in DropIndexes :
          handleTaskReorder(id, st, ix)
    \/ \E id \in TaskIds, st \in {NOT_STARTED, IN_PROGRESS} : handleTaskMoveV2(id, st)
    \/ \E id \in TaskIds, st \in {NOT_STARTED, IN_PROGRESS}, ix \in DropIndexes :
          handleTaskReorderV2(id, st, ix)

SpecTies == InitTies /\ [][NextTies]_vars

-----------------------------------------------------------------------------
(* KanbanBoard: drops on a card and on a column *)

(* the cards of a column: the tasks prop filtered by status, sorted by order *)
statusTasks(ts, status) == SortByOrder(SelectSeq(ts, LAMBDA t : t.status = status))

(* the board calls onTaskReorder, the App's handleTaskReorder *)
onTaskReorder(taskId, status, index) ==
    \/ handleTaskReorder(taskId, status, index)
    \/ handleTaskReorderV2(taskId, status, index)

(* a card is dropped on the card of targetTask, on its lower or upper half;  *)
(* the board shows filteredTasks                                            *)
onCardDrop(draggedId, targetId, lowerHalf) ==
    LET shown == filteredTasks(tasks)
        targetTask == find(shown, targetId)
        index == findIndex(statusTasks(shown, targetTask.status), targetId) - 1
        insertIndex == IF lowerHalf THEN index + 1 ELSE index
    IN  /\ targetTask # NoTask
        /\ find(shown, draggedId) # NoTask
        /\ draggedId # targetId
        /\ onTaskReorder(draggedId, targetTask.status, insertIndex)

(* a card is dropped on the free area of a column *)
onColumnDrop(taskId, status) ==
    LET shown == filteredTasks(tasks)
    IN  /\ find(shown, taskId) # NoTask
        /\ onTaskReorder(taskId, status, Len(statusTasks(shown, status)))

BoardRows ==
    {[i \in 1 .. Cardinality(TaskIds) |->
        [id |-> RowIds[i], status |-> st[i], order |-> od[i],
         pred |-> None, createdAt |-> CreatedAt[RowIds[i]],
         startDate |-> 1, dueDate |-> 2,
         updatedAt |-> 0, calendarEventId |-> None,
         visibility |-> IF i = 1 THEN vs ELSE "public",
         assigneeEmail |-> IF i = 1 THEN "u2" ELSE "u1"]] :
      st \in [1 .. Cardinality(TaskIds) -> {NOT_STARTED, IN_PROGRESS}],
      od \in [1 .. Cardinality(TaskIds) -> OrderCells],
      vs \in Visibilities}

InitBoard ==
    /\ app \in {1, 2}
    /\ remote \in BoardRows
    /\ tasks = Loaded(getTasks(remote))
    /\ pending = {}
    /\ last = Done("init", None, NOT_STARTED, 0, "ok")
    /\ nops = 0
    /\ view = NoView
    /\ calendar = {}
    /\ currentUser = "u1"
    /\ timezoneOffset = 0 - 540
    /\ InitAuth
    /\ npolls = 0
    /\ cap = [ops |-> MaxReorders, polls |-> 0]

NextBoard ==
    \/ \E d \in TaskIds, t \in TaskIds, lowerHalf \in BOOLEAN : onCardDrop(d, t, lowerHalf)
    \/ \E id \in TaskIds, st \in {NOT_STARTED, IN_PROGRESS} : onColumnDrop(id, st)

SpecBoard == InitBoard /\ [][NextBoard]_vars

-----------------------------------------------------------------------------
(* sheetService, call by call: each call is split at its awaits, so that     *)
(* the calls of this client and of other clients interleave.  remote[i] is  *)
(* the sheet's row i + 1, row 1 being the header.                           *)

MaxCalls == 2

(* a row of empty cells *)
BlankRow == [NoTask EXCEPT !.order = NoOrder]

(* getRowIndex: column A with the header, findIndex, 1-based *)
getRowIndex(rows, taskId) ==
    IF taskId = None \/ findIndex(rows, taskId) = 0 THEN 0 - 1 ELSE findIndex(rows, taskId) + 1

(* idToRowMap.get(id): the last row that holds the id, 0 for undefined *)
idToRowMap(rows, taskId) ==
    IF findIndex(rows, taskId) = 0 THEN 0
    ELSE 1 + (CHOOSE i \in DOMAIN rows :
                 /\ rows[i].id = taskId
                 /\ \A j \in DOMAIN rows : rows[j].id = taskId => j <= i)

(* the rows up to sheet row rowIndex, with empty rows where the sheet has    *)
(* none                                                                     *)
Padded(rows, rowIndex) ==
    [i \in 1 .. Max(Len(rows), rowIndex - 1) |-> IF i <= Len(rows) THEN rows[i] ELSE BlankRow]

(* values.update on A<rowIndex>:O<rowIndex> *)
UpdateRowAt(rows, rowIndex, row) ==
    [Padded(rows, rowIndex) EXCEPT ![rowIndex - 1] = row]

(* values.update on O<rowIndex> *)
UpdateOrderAt(rows, rowIndex, order) ==
    [Padded(rows, rowIndex) EXCEPT ![rowIndex - 1].order = order]

(* deleteDimension of the sheet row rowIndex *)
DeleteRowAt(rows, rowIndex) ==
    IF rowIndex - 1 \in DOMAIN rows
    THEN SubSeq(rows, 1, rowIndex - 2) \o SubSeq(rows, rowIndex, Len(rows))
    ELSE rows

(* a call of the service between two of its awaits *)
SheetCall(fn, id, pc, rowIndex, task, writes) ==
    [k |-> "sheet", fn |-> fn, id |-> id, pc |-> pc, rowIndex |-> rowIndex,
     task |-> task, writes |-> writes]

CanCall == nops < cap.ops

(* updateTask(task): getRowIndex *)
updateTaskGetRowIndex(taskId, newStatus) ==
    LET task == [find(tasks, taskId) EXCEPT !.status = newStatus]
        rowIndex == getRowIndex(remote, taskId)
    IN  /\ CanCall
        /\ find(tasks, taskId) # NoTask
        /\ nops' = nops + 1
        /\ IF rowIndex = 0 - 1
           THEN /\ last' = Done("updateTaskGetRowIndex", taskId, newStatus, rowIndex,
                                "Task not found")
                /\ UNCHANGED pending
           ELSE /\ pending' = pending \cup
                     {SheetCall("updateTask", taskId, "update", rowIndex, task, {})}
                /\ last' = Done("updateTaskGetRowIndex", taskId, newStatus, rowIndex, "ok")
        /\ UNCHANGED <<authVars, app, calendar, currentUser, timezoneOffset, view, tasks, remote, npolls,
                       cap>>

(* updateTaskStatus(taskId, status): getTasks and find *)
updateTaskStatusGetTasks(taskId, newStatus) ==
    LET task == find(getTasks(remote), taskId)
    IN  /\ CanCall
        /\ nops' = nops + 1
        /\ IF task = NoTask
           THEN /\ last' = Done("updateTaskStatusGetTasks", taskId, newStatus, 0,
                                "Task not found")
                /\ UNCHANGED pending
           ELSE /\ pending' = pending \cup
                     {SheetCall("updateTaskStatus", taskId, "getRowIndex", 0,
                                [task EXCEPT !.status = newStatus], {})}
                /\ last' = Done("updateTaskStatusGetTasks", taskId, newStatus, 0, "ok")
        /\ UNCHANGED <<authVars, app, calendar, currentUser, timezoneOffset, view, tasks, remote, npolls,
                       cap>>

(* updateTaskStatus goes on to updateTask: getRowIndex *)
updateTaskStatusGetRowIndex ==
    \E c \in pending :
        /\ c.k = "sheet"
        /\ c.pc = "getRowIndex"
        /\ LET rowIndex == getRowIndex(remote, c.id)
           IN  IF rowIndex = 0 - 1
               THEN /\ pending' = pending \ {c}
                    /\ last' = Done("updateTaskStatusGetRowIndex", c.id, c.task.status,
                                    rowIndex, "Task not found")
               ELSE /\ pending' = (pending \ {c}) \cup
                         {[c EXCEPT !.pc = "update", !.rowIndex = rowIndex]}
                    /\ last' = Done("updateTaskStatusGetRowIndex", c.id, c.task.status,
                                    rowIndex, "ok")
        /\ UNCHANGED <<authVars, app, calendar, currentUser, timezoneOffset, view, tasks, remote, nops,
                       npolls, cap>>

(* updateTask: values.update writes the whole row at the index it read *)
updateTaskUpdate ==
    \E c \in pending :
        /\ c.k = "sheet"
        /\ c.pc = "update"
        /\ remote' = UpdateRowAt(remote, c.rowIndex, Stamped(remote, c.task))
        /\ pending' = pending \ {c}
        /\ last' = Done("updateTaskUpdate", c.id, c.task.status, c.rowIndex, "ok")
        /\ UNCHANGED <<authVars, app, calendar, currentUser, timezoneOffset, view, tasks, nops, npolls,
                       cap>>

(* updateTaskOrders(updatedTasks), for a column of the list numbered anew:  *)
(* column A is read and every task that has a row gets a write              *)
updateTaskOrdersGet(status) ==
    LET updatedTasks == Renumber(statusTasks(tasks, status))
        writes == {<<idToRowMap(remote, updatedTasks[i].id), updatedTasks[i].order,
                     updatedTasks[i].id>> : i \in DOMAIN updatedTasks}
        found == {w \in writes : w[1] # 0}
    IN  /\ CanCall
        /\ updatedTasks # << >>
        /\ nops' = nops + 1
        /\ pending' = IF found = {} THEN pending
                      ELSE pending \cup
                           {SheetCall("updateTaskOrders", None, "updates", 0, NoTask, found)}
        /\ last' = Done("updateTaskOrdersGet", None, status, Cardinality(found), "ok")
        /\ UNCHANGED <<authVars, app, calendar, currentUser, timezoneOffset, view, tasks, remote, npolls,
                       cap>>

(* one of the values.update calls of updateTaskOrders writes its O cell *)
updateTaskOrdersUpdate ==
    \E c \in pending :
        /\ c.k = "sheet"
        /\ c.fn = "updateTaskOrders"
        /\ \E w \in c.writes :
              /\ remote' = UpdateOrderAt(remote, w[1], w[2])
              /\ pending' = IF c.writes = {w} THEN pending \ {c}
                            ELSE (pending \ {c}) \cup {[c EXCEPT !.writes = @ \ {w}]}
              /\ last' = Done("updateTaskOrdersUpdate", w[3], NOT_STARTED, w[1], "ok")
        /\ UNCHANGED <<authVars, app, calendar, currentUser, timezoneOffset, view, tasks, nops, npolls,
                       cap>>

(* createTask: values.append puts the row after the last row *)
createTaskAppend(newStatus) ==
    /\ CanCall
    /\ findIndex(remote, NewId) = 0
    /\ nops' = nops + 1
    /\ remote' = Append(remote, Stamped(remote, NewTask(newStatus, None, DefaultOrder)))
    /\ last' = Done("createTaskAppend", NewId, newStatus, Len(remote) + 2, "ok")
    /\ UNCHANGED <<authVars, app, calendar, currentUser, timezoneOffset, view, tasks, pending, npolls,
                   cap>>

(* deleteTask(taskId): columns A:B are read, the first row with the id is   *)
(* the row to delete                                                        *)
deleteTaskLookup(taskId) ==
    /\ CanCall
    /\ nops' = nops + 1
    /\ IF findIndex(remote, taskId) = 0
       THEN /\ last' = Done("deleteTaskLookup", taskId, NOT_STARTED, 0 - 1,
                            "Task not found in sheet")
            /\ UNCHANGED pending
       ELSE /\ pending' = pending \cup
                 {SheetCall("deleteTask", taskId, "getTasks", findIndex(remote, taskId) + 1,
                            NoTask, {})}
            /\ last' = Done("deleteTaskLookup", taskId, NOT_STARTED,
                            findIndex(remote, taskId) + 1, "ok")
    /\ UNCHANGED <<authVars, app, calendar, currentUser, timezoneOffset, view, tasks, remote, npolls,
                   cap>>

(* deleteTask: getTasks for the calendar event of the task; the event, if   *)
(* the task has one, is removed or the failure is warned about              *)
deleteTaskGetTasks ==
    \E c \in pending :
        /\ c.k = "sheet"
        /\ c.pc = "getTasks"
        /\ \E removed \in BOOLEAN :
              calendar' = IF removed
                          THEN calendar \ {find(getTasks(remote), c.id).calendarEventId}
                          ELSE calendar
        /\ pending' = (pending \ {c}) \cup {[c EXCEPT !.pc = "getSheetId"]}
        /\ last' = Done("deleteTaskGetTasks", c.id, NOT_STARTED, c.rowIndex, "ok")
        /\ UNCHANGED <<authVars, app, currentUser, timezoneOffset, view, tasks, remote, nops, npolls,
                       cap>>

(* deleteTask: getSheetId *)
deleteTaskGetSheetId ==
    \E c \in pending :
        /\ c.k = "sheet"
        /\ c.pc = "getSheetId"
        /\ pending' = (pending \ {c}) \cup {[c EXCEPT !.pc = "batchUpdate"]}
        /\ last' = Done("deleteTaskGetSheetId", c.id, NOT_STARTED, c.rowIndex, "ok")
        /\ UNCHANGED <<authVars, app, calendar, currentUser, timezoneOffset, view, tasks, remote, nops,
                       npolls, cap>>

(* deleteTask: deleteDimension removes the sheet row at the index read at   *)
(* the start of the call                                                    *)
deleteTaskBatchUpdate ==
    \E c \in pending :
        /\ c.k = "sheet"
        /\ c.pc = "batchUpdate"
        /\ remote' = DeleteRowAt(remote, c.rowIndex)
        /\ pending' = pending \ {c}
        /\ last' = Done("deleteTaskBatchUpdate", c.id, NOT_STARTED, c.rowIndex, "ok")
        /\ UNCHANGED <<authVars, app, calendar, currentUser, timezoneOffset, view, tasks, nops, npolls,
                       cap>>

SheetRows ==
    {[i \in 1 .. Cardinality(TaskIds) |->
        [id |-> RowIds[i], status |-> NOT_STARTED, order |-> od[i],
         pred |-> None, createdAt |-> CreatedAt[RowIds[i]],
         startDate |-> 1, dueDate |-> 2,
         updatedAt |-> 0, calendarEventId |-> None, visibility |-> "public",
         assigneeEmail |-> "u1"]] :
      od \in [1 .. Cardinality(TaskIds) -> OrderCells]}

InitSheet ==
    /\ app \in {1, 2}
    /\ remote \in SheetRows
    /\ tasks = Loaded(getTasks(remote))
    /\ pending = {}
    /\ last = Done("init", None, NOT_STARTED, 0, "ok")
    /\ nops = 0
    /\ view = NoView
    /\ calendar = {}
    /\ currentUser = "u1"
    /\ timezoneOffset = 0 - 540
    /\ InitAuth
    /\ npolls = 0
    /\ cap = [ops |-> MaxCalls, polls |-> 0]

NextSheet ==
    \/ \E id \in TaskIds, st \in {IN_PROGRESS} : updateTaskGetRowIndex(id, st)
    \/ \E id \in TaskIds, st \in {COMPLETED} : updateTaskStatusGetTasks(id, st)
    \/ updateTaskStatusGetRowIndex
    \/ updateTaskUpdate
    \/ updateTaskOrdersGet(NOT_STARTED)
    \/ updateTaskOrdersUpdate
    \/ createTaskAppend(NOT_STARTED)
    \/ \E id \in TaskIds : deleteTaskLookup(id)
    \/ deleteTaskGetTasks
    \/ deleteTaskGetSheetId
    \/ deleteTaskBatchUpdate

SpecSheet == InitSheet /\ [][NextSheet]_vars

-----------------------------------------------------------------------------
(* App: signing out *)

(* google.accounts.oauth2.revoke in flight, its callback not yet called *)
Revoke == [k |-> "revoke"]

(* what sheetService.signOut and the App's callback do once the token is    *)
(* revoked or was not there                                                 *)
onSignOut ==
    /\ token' = "none"
    /\ isSignedIn' = FALSE
    /\ tasks' = << >>
    /\ currentUser' = None

(* handleSignOut / handleLogout: signOut revokes the token if there is one *)
handleSignOut ==
    /\ isSignedIn
    /\ Revoke \notin pending
    /\ IF token # "none"
       THEN /\ pending' = pending \cup {Revoke}
            /\ UNCHANGED <<token, isSignedIn, tasks, currentUser>>
       ELSE /\ onSignOut
            /\ UNCHANGED pending
    /\ last' = Done("handleSignOut", None, NOT_STARTED, 0, "ok")
    /\ UNCHANGED <<app, calendar, timezoneOffset, view, remote, nops, npolls, cap,
                   tokenClient, refreshResolver, requests, callers>>

(* the callback of revoke *)
revokeDone ==
    /\ Revoke \in pending
    /\ pending' = pending \ {Revoke}
    /\ onSignOut
    /\ last' = Done("revokeDone", None, NOT_STARTED, 0, "ok")
    /\ UNCHANGED <<app, calendar, timezoneOffset, view, remote, nops, npolls, cap,
                   tokenClient, refreshResolver, requests, callers>>

InitSignOut ==
    /\ app \in {1, 2}
    /\ remote \in InitialRows(TaskIds)
    /\ tasks = Loaded(getTasks(remote))
    /\ pending = {}
    /\ last = Done("init", None, NOT_STARTED, 0, "ok")
    /\ nops = 0
    /\ view = NoView
    /\ calendar = {}
    /\ currentUser = "u1"
    /\ timezoneOffset = 0 - 540
    /\ InitAuth
    /\ npolls = 0
    /\ cap = [ops |-> 0, polls |-> MaxPolls]

NextSignOut ==
    \/ loadData
    \/ loadDataDone
    \/ loadDataFail
    \/ handleSignOut
    \/ revokeDone

SpecSignOut == InitSignOut /\ [][NextSignOut]_vars

-----------------------------------------------------------------------------
(* sheetService: the token and its silent refresh *)

(* what the token callback receives: a token, or one of the error codes of  *)
(* a request with prompt 'none'                                             *)
Responses == {"ok", "interaction_required", "login_required", "consent_required",
              "server_error"}

(* Date.now() reaches tokenExpiresAt *)
tokenExpires ==
    /\ token = "valid"
    /\ token' = "expired"
    /\ last' = Done("tokenExpires", None, NOT_STARTED, 0, "ok")
    /\ UNCHANGED <<app, calendar, currentUser, timezoneOffset, view, tasks, remote, pending,
                   nops, npolls, cap, isSignedIn, tokenClient, refreshResolver, requests,
                   callers>>

(* refreshResolver(): every promise that the stored resolver chains to *)
Resolved(cs) == [c \in Callers |-> IF c \in cs THEN "returned" ELSE callers[c]]

(* a method of the service calls ensureAuth: with a good token it returns,  *)
(* with a refresh in progress it chains its resolve to refreshResolver,     *)
(* otherwise it stores its resolve and asks for a token without prompt      *)
ensureAuth(c) ==
    /\ callers[c] = "idle"
    /\ IF token = "valid"
       THEN /\ callers' = [callers EXCEPT ![c] = "returned"]
            /\ UNCHANGED <<refreshResolver, requests>>
       ELSE IF refreshResolver # Null
       THEN /\ refreshResolver' = refreshResolver \cup {c}
            /\ callers' = [callers EXCEPT ![c] = "waiting"]
            /\ UNCHANGED requests
       ELSE /\ refreshResolver' = {c}
            /\ IF tokenClient
               THEN /\ requests' = requests + 1
                    /\ callers' = [callers EXCEPT ![c] = "waiting"]
               ELSE /\ callers' = [callers EXCEPT ![c] = "returned"]
                    /\ UNCHANGED requests
    /\ last' = Done("ensureAuth", c, NOT_STARTED, 0, "ok")
    /\ UNCHANGED <<app, calendar, currentUser, timezoneOffset, view, tasks, remote, pending,
                   nops, npolls, cap, isSignedIn, token, tokenClient>>

(* the request of the method that called ensureAuth is over *)
requestDone(c) ==
    /\ callers[c] = "returned"
    /\ callers' = [callers EXCEPT ![c] = "idle"]
    /\ last' = Done("requestDone", c, NOT_STARTED, 0, "ok")
    /\ UNCHANGED <<app, calendar, currentUser, timezoneOffset, view, tasks, remote, pending,
                   nops, npolls, cap, isSignedIn, token, tokenClient, refreshResolver,
                   requests>>

(* the callback given to initTokenClient: interaction_required and          *)
(* login_required resolve the waiting promises and return, any other error  *)
(* is thrown before refreshResolver is looked at, a token is stored and the *)
(* waiting promises are resolved; then onSignInUpdate(true)                 *)
tokenCallback(resp) ==
    /\ requests > 0
    /\ requests' = requests - 1
    /\ IF resp = "ok"
       THEN /\ token' = "valid"
            /\ isSignedIn' = TRUE
            /\ callers' = IF refreshResolver # Null THEN Resolved(refreshResolver) ELSE callers
            /\ refreshResolver' = Null
       ELSE IF resp \in {"interaction_required", "login_required"}
       THEN /\ callers' = IF refreshResolver # Null THEN Resolved(refreshResolver) ELSE callers
            /\ refreshResolver' = Null
            /\ UNCHANGED <<token, isSignedIn>>
       ELSE UNCHANGED <<token, isSignedIn, callers, refreshResolver>>
    /\ last' = Done("tokenCallback", resp, NOT_STARTED, 0, "ok")
    /\ UNCHANGED <<app, calendar, currentUser, timezoneOffset, view, tasks, remote, pending,
                   nops, npolls, cap, tokenClient>>

InitToken ==
    /\ app \in {1, 2}
    /\ remote \in InitialRows(TaskIds)
    /\ tasks = Loaded(getTasks(remote))
    /\ pending = {}
    /\ last = Done("init", None, NOT_STARTED, 0, "ok")
    /\ nops = 0
    /\ view = NoView
    /\ calendar = {}
    /\ currentUser = "u1"
    /\ timezoneOffset = 0 - 540
    /\ InitAuth
    /\ npolls = 0
    /\ cap = [ops |-> 0, polls |-> 0]

NextToken ==
    \/ tokenExpires
    \/ \E c \in Callers : ensureAuth(c)
    \/ \E c \in Callers : requestDone(c)
    \/ \E resp \in Responses : tokenCallback(resp)

SpecToken == InitToken /\ [][NextToken]_vars

-----------------------------------------------------------------------------
(* Properties *)

Started == {IN_PROGRESS, COMPLETED}

Column(ts, st) == SelectSeq(ts, LAMBDA t : t.status = st)

Accepted(op) == last.op = op /\ last.res = "ok"

(* the predecessor id resolves in ts to a task that is not COMPLETED *)
Blocked(pred, ts) ==
    /\ pred # None
    /\ \E i \in DOMAIN ts : ts[i].id = pred /\ ts[i].status # COMPLETED

Clamp(x, lo, hi) == IF x < lo THEN lo ELSE IF x > hi THEN hi ELSE x

(* the refresh whose response this step applies *)
Applies(l) ==
    /\ l \in pending
    /\ l \notin pending'
    /\ l.k = "load"
    /\ last'.op = "loadDataDone"

(* C1: after an accepted handleTaskReorder the order values of the tasks    *)
(* whose status is the destination status are exactly 0 .. n-1, without     *)
(* duplicates, whatever the orders of the starting list and the index.      *)
C1_DenseDestinationOrders ==
    Accepted("reorder") =>
        LET col == Column(tasks, last.st)
        IN  /\ {col[i].order : i \in DOMAIN col} = 0 .. (Len(col) - 1)
            /\ \A i, j \in DOMAIN col : i # j => col[i].order # col[j].order

C1_Witness ==
    /\ Accepted("reorder")
    /\ Len(Column(tasks, last.st)) = Cardinality(TaskIds)
    /\ last.idx < 0
    /\ \A i \in DOMAIN remote : remote[i].order = NoOrder

(* C2: the dependency check of a task t with proposed status s rejects      *)
(* exactly when s is IN_PROGRESS or COMPLETED, t has a predecessor id and   *)
(* that id resolves in the task list to a task that is not COMPLETED; it    *)
(* allows NOT_STARTED and a predecessor id that resolves to no task.        *)
C2_DependencyCheckExact ==
    \A i \in DOMAIN tasks : \A s \in Status :
        LET t == tasks[i]
            rejects == s \in Started /\ Blocked(t.pred, tasks)
        IN  /\ checkDependency([t EXCEPT !.status = s], tasks) = ~rejects
            /\ PredecessorCheckV2(t, s, tasks) = ~rejects

C2_Witness ==
    /\ last.op = "reorder"
    /\ last.res = "rejected"
    /\ Blocked(find(tasks, last.id).pred, tasks)
    /\ \E i \in DOMAIN tasks :
          /\ tasks[i].pred = Ghost
          /\ checkDependency([tasks[i] EXCEPT !.status = COMPLETED], tasks)

(* C3: no move, reorder or save issues a remote write carrying the status   *)
(* IN_PROGRESS or COMPLETED for a task (or sets that status in memory)      *)
(* while the in-memory list holds the task's predecessor with a status      *)
(* other than COMPLETED.                                                    *)
C3_EveryStatusChangeIsGated ==
    \A c \in pending :
        ( /\ last.op \in {"move", "reorder", "save", "create"}
          /\ last.res = "ok"
          /\ c.k \in {"updateTaskStatus", "updateTask", "createTask"}
          /\ c.op = last.op
          /\ c.id = last.id
          /\ c.st \in Started )
        => ~Blocked(IF c.task # NoTask THEN c.task.pred ELSE find(tasks, c.id).pred,
                    tasks)

(* C4: a handler that the predecessor gating rejects leaves the task list,  *)
(* the sheet and the calls in flight exactly as they were; a move, reorder  *)
(* or save of a task whose predecessor is COMPLETED is accepted.            *)
C4_RejectionChangesNothing ==
    [][ /\ last'.res = "rejected"
           => (tasks' = tasks /\ remote' = remote /\ pending' = pending)
        /\ ( /\ last'.op \in {"move", "reorder", "save"}
             /\ nops' = nops + 1
             /\ \E i \in DOMAIN tasks :
                   /\ tasks[i].id = find(tasks, last'.id).pred
                   /\ tasks[i].status = COMPLETED )
           => last'.res = "ok" ]_vars

C4_Witness ==
    /\ last.op = "move"
    /\ last.res = "rejected"
    /\ last.id = "t2"
    /\ last.st = IN_PROGRESS
    /\ find(tasks, "t1").status = NOT_STARTED
    /\ pending = {}

(* the change of the call c is in the task list ts *)
AppliedTo(ts, c) ==
    CASE c.op = "move" -> Holds(ts, <<c.id, "status", c.st>>)
      [] c.op = "reorder" ->
            /\ Holds(ts, <<c.id, "status", c.st>>)
            /\ \A v \in OrderValues(c.col) : Holds(ts, v)
      [] c.op = "delete" -> findIndex(ts, c.id) = 0
      [] OTHER -> \E i \in DOMAIN ts : ts[i] = c.task

(* the handler of this step issues the call c, its first remote write *)
Issues(c) ==
    /\ nops' = nops + 1
    /\ c \in pending'
    /\ c \notin pending
    /\ c.k # "load"

C6_RevertsToSnapshot ==
    [][ \A l \in pending : (Applies(l) /\ l.why = "move") => tasks' = l.pre ]_vars

(* C6 as amended: when that refresh completes, the task list equals the     *)
(* list as it was before the move provided the refresh fetched exactly      *)
(* that list from the sheet.                                                *)
C6_RevertsToSnapshotWhenInSync ==
    [][ \A l \in pending :
          (Applies(l) /\ l.why = "move" /\ l.snap = l.pre) => tasks' = l.pre ]_vars

C6_Witness ==
    /\ last.op = "loadDataDone"
    /\ last.res = "move"
    /\ pending = {}
    /\ nops = 1
    /\ tasks = getTasks(remote)

(* C7: once the remote write of a status change has succeeded, no refresh   *)
(* response whose fetch preceded the write takes the optimistic value out   *)
(* of the task list.                                                        *)
C7_StaleRefreshKeepsOptimistic ==
    [][ \A l \in pending :
          Applies(l) => \A v \in l.missed : Holds(tasks, v) => Holds(tasks', v) ]_vars

(* C8: when a silent refresh completes, the task list holds exactly the     *)
(* fetched tasks with the fetched field values; nothing local survives.     *)
C8_RefreshReplacesWholesale ==
    [][ \A l \in pending :
          (Applies(l) /\ l.why # "signin")
          => (Range(tasks') = Range(l.snap) /\ Len(tasks') = Len(l.snap)) ]_vars

C8_Witness ==
    /\ last.op = "loadDataDone"
    /\ last.res = "poll"
    /\ \E c \in pending :
          /\ c.k = "updateTaskStatus"
          /\ Holds(c.pre, <<c.id, "status", c.st>>) = FALSE
          /\ ~Holds(tasks, <<c.id, "status", c.st>>)

Reordered(ts, taskId, newStatus, newIndex) ==
    LET t == find(ts, taskId)
    IN  IF app = 1
        THEN IF t.status # newStatus /\ ~checkDependency([t EXCEPT !.status = newStatus], ts)
             THEN ts
             ELSE ReorderV1(ts, taskId, newStatus, newIndex).all
        ELSE IF ~PredecessorCheckV2(t, newStatus, ts)
             THEN ts
             ELSE ReorderV2(ts, taskId, newStatus, newIndex).all

(* C10: handleTaskReorder applied again with the same task, status and      *)
(* index to the list an accepted reorder produced gives that same list.     *)
C10_ReorderIdempotent ==
    Accepted("reorder") => Reordered(tasks, last.id, last.st, last.idx) = tasks

C10_Witness ==
    /\ Accepted("reorder")
    /\ Len(Column(tasks, last.st)) = Cardinality(TaskIds)
    /\ last.idx = 1
    /\ find(tasks, last.id).order = 1
    /\ \E i \in DOMAIN remote : remote[i].id = last.id /\ remote[i].status # last.st

(* the number of rows of the chart that show the task id *)
Shows(rows, id) == Cardinality({i \in DOMAIN rows : rows[i].id = id})

(* the chart has just been drawn from the current task list *)
Drawn == last.op = "render"

(* the task's predecessor id names no task of the list *)
Dangling(t, ts) == t.pred # None /\ findIndex(ts, t.pred) = 0

(* C11: the chart's topological projection holds every task that has both  *)
(* dates exactly once and no other task, whatever cycles, self-references   *)
(* or dangling predecessor ids the list contains.                           *)
C11_ProjectionTotalNoDuplicates ==
    Drawn =>
        /\ \A i \in DOMAIN tasks :
              Shows(view.rows, tasks[i].id) = IF hasDates(tasks[i]) THEN 1 ELSE 0
        /\ Range(view.rows) \subseteq Range(tasks)

C11_Witness ==
    /\ Drawn
    /\ find(tasks, "t1").pred = "t2"
    /\ find(tasks, "t2").pred = "t1"
    /\ find(tasks, "t3").pred = Ghost
    /\ Len(view.rows) = Cardinality(TaskIds)

(* C12 as claimed: a task with both dates whose predecessor id names no     *)
(* task is shown exactly once and after every task the traversal reaches    *)
(* from the roots, so after every task that has no predecessor id.          *)
C12_DanglingAppendedLast ==
    Drawn =>
        \A i, j \in DOMAIN tasks :
            ( /\ hasDates(tasks[i])
              /\ Dangling(tasks[i], tasks)
              /\ hasDates(tasks[j])
              /\ tasks[j].pred = None )
            => /\ Shows(view.rows, tasks[i].id) = 1
               /\ findIndex(view.rows, tasks[j].id) < findIndex(view.rows, tasks[i].id)

RECURSIVE Rooted(_, _, _)
(* following predecessor ids from t leads, within n steps, to a root *)
Rooted(t, valid, n) ==
    IF ~hasParent(t, valid) THEN TRUE
    ELSE IF n = 0 THEN FALSE
    ELSE Rooted(find(valid, t.pred), valid, n - 1)

(* C12 as amended: a task with both dates whose predecessor id names no     *)
(* task is shown exactly once, as a root: among the tasks without           *)
(* predecessor it stands in ascending start date order, and it stands       *)
(* before every task that no root leads to.                                 *)
C12_DanglingIsRoot ==
    Drawn =>
        \A i, j \in DOMAIN tasks :
            (hasDates(tasks[i]) /\ Dangling(tasks[i], tasks) /\ hasDates(tasks[j]))
            => LET d == tasks[i]
                   r == tasks[j]
                   at(t) == findIndex(view.rows, t.id)
               IN  /\ Shows(view.rows, d.id) = 1
                   /\ (r.pred = None /\ r.startDate < d.startDate) => at(r) < at(d)
                   /\ (r.pred = None /\ d.startDate < r.startDate) => at(d) < at(r)
                   /\ ~Rooted(r, validTasks(tasks), Len(tasks)) => at(d) < at(r)

C12_Witness ==
    /\ Drawn
    /\ Dangling(find(tasks, "t3"), tasks)
    /\ find(tasks, "t2").pred = "t1"
    /\ find(tasks, "t1").pred = "t1"
    /\ Len(view.rows) = Cardinality(TaskIds)
    /\ view.rows[1].id = "t3"

(* C13: a drag of a bar commits only dates with startDate <= dueDate; when  *)
(* the shifted start date is after the shifted due date no update is        *)
(* issued and the task list is left as it was.                              *)
C13_DragKeepsStartBeforeDue ==
    [][ (view.drag # NoDrag /\ view'.drag = NoDrag) =>
          LET drag == view.drag
              delta == MathRound(last'.idx, colWidth)
              start == IF drag.type = "right" THEN LocalDay(drag.originalStart)
                       ELSE LocalDay(drag.originalStart) + delta
              due == IF drag.type = "left" THEN LocalDay(drag.originalEnd)
                     ELSE LocalDay(drag.originalEnd) + delta
          IN  /\ \A c \in pending' \ pending :
                    /\ c.task.startDate <= c.task.dueDate
                    /\ c.task.startDate = start
                    /\ c.task.dueDate = due
                    /\ find(tasks', c.id) = c.task
              /\ start > due
                 => (tasks' = tasks /\ pending' = pending /\ remote' = remote) ]_vars

C13_Witness ==
    /\ last.op = "gantt"
    /\ last.res = "discarded"
    /\ last.idx > 0
    /\ find(tasks, last.id).startDate = 1
    /\ find(tasks, last.id).dueDate = 1
    /\ pending = {}

(* C19: the chart's window runs from the least start date minus 7 days to   *)
(* the greatest due date plus 14 days, over the tasks with both dates; when *)
(* no task has both dates, the list being empty or not, the window is the   *)
(* single day today.                                                        *)
C19_WindowOfDatedTasks ==
    Drawn =>
        LET dated == {t \in Range(tasks) : t.startDate # NoDate /\ t.dueDate # NoDate}
        IN  IF dated = {}
            THEN view.from = Today /\ view.to = Today
            ELSE /\ \E t \in dated : view.from = t.startDate - 7
                 /\ \A t \in dated : view.from <= t.startDate - 7
                 /\ \E t \in dated : view.to = t.dueDate + 14
                 /\ \A t \in dated : view.to >= t.dueDate + 14

(* C20: an accepted handleTaskReorder keeps the task ids of the list, none  *)
(* lost and none twice; every other task keeps its status; every task of    *)
(* another status than the destination keeps its order too (the source      *)
(* column is not renumbered); no field but status and order changes.        *)
C20_ReorderFrame ==
    [][ (nops' = nops + 1 /\ last'.op = "reorder" /\ last'.res = "ok") =>
          /\ Len(tasks') = Len(tasks)
          /\ Ids(tasks') = Ids(tasks)
          /\ \A i \in DOMAIN tasks :
                LET t == tasks[i]
                    u == find(tasks', t.id)
                IN  /\ Shows(tasks', t.id) = 1
                    /\ t.id = last'.id => u.status = last'.st
                    /\ t.id # last'.id => u.status = t.status
                    /\ (t.id # last'.id /\ t.status # last'.st) => u = t
                    /\ u = [t EXCEPT !.status = u.status, !.order = u.order] ]_vars

C20_Witness ==
    /\ Accepted("reorder")
    /\ find(remote, last.id).status # last.st
    /\ \E i \in DOMAIN tasks :
          /\ tasks[i].id # last.id
          /\ tasks[i].status = find(remote, last.id).status
          /\ tasks[i].order = 1
          /\ \A j \in DOMAIN tasks : tasks[j].status = tasks[i].status => j = i

(* C18: the order given to a new task is greater than the order of every    *)
(* task of the in-memory list that has the new task's status.               *)
C18_NewTaskOrderAtEnd ==
    [][ \A c \in pending' :
          (c \notin pending /\ c.k = "createTask")
          => \A i \in DOMAIN tasks :
                tasks[i].status = c.task.status => c.task.order > tasks[i].order ]_vars

(* C16: when a write of a status change, reorder, reschedule, edit or       *)
(* delete completes for a task id that has no row in the sheet, the         *)
(* adapter raises an error and writes nothing, the handler starts a         *)
(* refresh, and no write is issued again.                                   *)
C16_NotFoundRefreshes ==
    [][ \A c \in pending :
          ( /\ c.k \in {"updateTask", "updateTaskStatus", "updateTaskOrders", "deleteTask"}
            /\ c \notin pending'
            /\ ~HasRow(remote, c.id) )
          => /\ remote' = remote
             /\ last'.op \in {"updateTaskFail", "updateTaskStatusFail",
                              "updateTaskOrdersFail", "deleteTaskFail"}
             /\ \E l \in pending' : l \notin pending /\ l.k = "load"
             /\ \A n \in pending' : n \notin pending => n.k = "load" ]_vars

(* C17: when the last remote write of a mutation of a task has succeeded,   *)
(* the row of the task holds an updatedAt newer than the one the task had   *)
(* before the mutation                                                      *)
LastWriteLands(c) ==
    /\ c \in pending
    /\ c \notin pending'
    /\ c.k \in {"updateTask", "updateTaskStatus", "updateTaskOrders"}
    /\ last'.op \in {"updateTaskLand", "updateTaskStatusLand", "updateTaskOrdersLand"}
    /\ \A n \in pending' : n \notin pending => n.k = "load"

C17_MutationStampsUpdatedAt ==
    [][ \A c \in pending :
          (LastWriteLands(c) /\ HasRow(remote', c.id) /\ find(c.pre, c.id) # NoTask)
          => find(remote', c.id).updatedAt > find(c.pre, c.id).updatedAt ]_vars

(* C14: no screen fed by the task store (list, board, chart, dashboard      *)
(* counts, predecessor candidates of the modal) holds a private task of a   *)
(* user other than the current user                                         *)
C14_PrivateTasksNeverExposed ==
    view.shown =>
        \A i \in DOMAIN view.rows :
            view.rows[i].visibility = "private" => view.rows[i].assigneeEmail = currentUser

(* C15: a calendar call that fails leaves the task mutation in place. When  *)
(* removeFromCalendar fails, deleteTask is still in flight with nothing     *)
(* reverted, it can delete the row, and when it does the row is gone and    *)
(* the list is not put back; when addToCalendar fails, the sheet is left    *)
(* alone (a save that is the only operation finds its row as written) and   *)
(* the save ends as a save that succeeded (the first App reloads, the       *)
(* second App puts the saved task in the list, if the list still has it)    *)
C15_CalendarFailureKeepsMutation ==
    [][ /\ last'.op = "removeFromCalendarFail"
           => \E c \in pending :
                 /\ c.k = "deleteTask"
                 /\ c.id = last'.id
                 /\ pending' = (pending \ {c}) \cup {[c EXCEPT !.cal = "warned"]}
                 /\ remote' = remote
                 /\ tasks' = tasks
        /\ \A c \in pending' :
              (c.k = "deleteTask" /\ c.cal = "warned" /\ HasRow(remote', c.id))
              => (ENABLED deleteTaskLand)'
        /\ \A c \in pending :
              (c.k = "deleteTask" /\ c.cal = "warned" /\ c \notin pending'
                 /\ last'.op = "deleteTaskLand")
              => /\ ~HasRow(remote', c.id)
                 /\ tasks' = tasks
        /\ last'.op = "addToCalendarFail"
           => \E c \in pending :
                 /\ c.k = "addToCalendar"
                 /\ c.id = last'.id
                 /\ remote' = remote
                 /\ nops = 1 => find(remote', c.id) = c.task
                 /\ app = 1 => pending' = (pending \ {c}) \cup {Load("save", << >>, remote)}
                 /\ app = 2 => pending' = pending \ {c}
                 /\ (app = 2 /\ (c.op = "create" \/ find(tasks, c.id) # NoTask))
                    => find(tasks', c.id) = c.task ]_vars

C15_Witness ==
    /\ last.op = "deleteTaskLand"
    /\ ~HasRow(remote, last.id)
    /\ EventIds[last.id] \in calendar

(* C21: in an accepted handleTaskReorder, two tasks that stay in the         *)
(* destination column and had equal orders are placed by createdAt          *)
(* descending: the one created later gets the smaller new order.            *)
C21_TiesByCreatedAtDescending ==
    [][ (nops' = nops + 1 /\ last'.op = "reorder" /\ last'.res = "ok") =>
          \A i, j \in DOMAIN tasks :
              LET a == tasks[i]
                  b == tasks[j]
              IN  ( /\ a.id # last'.id /\ b.id # last'.id
                    /\ a.status = last'.st /\ b.status = last'.st
                    /\ a.order = b.order
                    /\ a.createdAt > b.createdAt )
                  => find(tasks', a.id).order < find(tasks', b.id).order ]_vars

RECURSIVE PredChainReaches(_, _, _, _)

(* following predecessor ids from the task with id from, for at most n      *)
(* steps, arrives at the id target                                          *)
PredChainReaches(from, target, valid, n) ==
    LET t == find(valid, from)
    IN  /\ n > 0
        /\ t # NoTask
        /\ t.pred # None
        /\ (t.pred = target \/ PredChainReaches(t.pred, target, valid, n - 1))

OnCycle(t, valid) == PredChainReaches(t.id, t.id, valid, Len(valid))

(* C22: in the chart's rows, a task whose predecessor is a row too, and      *)
(* that is on no dependency cycle, stands after its predecessor.            *)
C22_PredecessorFirst ==
    Drawn =>
        \A i \in DOMAIN view.rows :
            LET t == view.rows[i]
            IN  (hasParent(t, view.rows) /\ ~OnCycle(t, view.rows))
                => findIndex(view.rows, t.pred) < i

(* the whole number of columns nearest to an offset of d pixels, a half     *)
(* column counting as a whole one                                           *)
NearestColumn(d) ==
    CHOOSE k \in (0 - MaxDelta - 1) .. (MaxDelta + 1) : 40 * k - 20 <= d /\ d < 40 * k + 20

(* C23: a drag released d pixels away changes dates by NearestColumn(d)     *)
(* days: none issues no update; otherwise the task passed to onTaskUpdate   *)
(* is the task with startDate and dueDate both shifted ('move'), with only  *)
(* startDate shifted and dueDate as at drag start ('left'), or with only    *)
(* dueDate shifted and startDate as at drag start ('right'), and with no    *)
(* other field changed.                                                     *)
C23_DragShiftsWholeDays ==
    [][ (view.drag # NoDrag /\ view'.drag = NoDrag) =>
          LET drag == view.drag
              delta == NearestColumn(last'.idx)
              task == find(tasks, drag.taskId)
          IN  /\ delta = 0 => (pending' = pending /\ tasks' = tasks)
              /\ \A c \in pending' \ pending :
                    /\ delta # 0
                    /\ c.task.startDate =
                         IF drag.type = "right" THEN drag.originalStart
                         ELSE drag.originalStart + delta
                    /\ c.task.dueDate =
                         IF drag.type = "left" THEN drag.originalEnd
                         ELSE drag.originalEnd + delta
                    /\ c.task = [task EXCEPT !.startDate = c.task.startDate,
                                             !.dueDate = c.task.dueDate] ]_vars

(* the index a drop on the card of the task with id targetId hands to       *)
(* onTaskReorder                                                            *)
DropIndex(ts, targetId, lowerHalf) ==
    LET shown == filteredTasks(ts)
        index == findIndex(statusTasks(shown, find(shown, targetId).status), targetId) - 1
    IN  IF lowerHalf THEN index + 1 ELSE index

(* C24: after an accepted drop of a card on the card of T, the dragged task *)
(* stands in T's displayed column right before T (drop on the upper half)   *)
(* or right after T (drop on the lower half).                               *)
C24_DroppedNextToTarget ==
    [][ (nops' = nops + 1 /\ last'.op = "reorder" /\ last'.res = "ok") =>
          \A targetId \in Ids(filteredTasks(tasks)) \ {last'.id} :
            \A lowerHalf \in BOOLEAN :
              ( /\ find(filteredTasks(tasks), last'.id) # NoTask
                /\ find(tasks, targetId).status = last'.st
                /\ DropIndex(tasks, targetId, lowerHalf) = last'.idx )
              => LET col == statusTasks(filteredTasks(tasks'), last'.st)
                 IN  findIndex(col, last'.id) =
                       findIndex(col, targetId) + (IF lowerHalf THEN 1 ELSE 0 - 1) ]_vars

-----------------------------------------------------------------------------
(* the sheet row a call is about to write or delete holds the id of the call *)
RowHolds(rows, rowIndex, taskId) ==
    /\ rowIndex - 1 \in DOMAIN rows
    /\ rows[rowIndex - 1].id = taskId

(* every task id is in at most one row *)
OneRowPerId(rows) ==
    \A i, j \in DOMAIN rows : (rows[i].id # None /\ rows[i].id = rows[j].id) => i = j

(* C25: the deleteDimension request of deleteTask(taskId) removes exactly    *)
(* one row, and it is the row whose ID cell is taskId when the request      *)
(* lands, whatever other deletions and appends came between the reads of    *)
(* the call and its request.                                                *)
C25_DeleteRemovesOwnRow ==
    [][\A c \in pending :
          (c.k = "sheet" /\ c.pc = "batchUpdate" /\ pending' = pending \ {c})
          => /\ RowHolds(remote, c.rowIndex, c.id)
             /\ Len(remote') = Len(remote) - 1
             /\ remote' = DeleteRowAt(remote, c.rowIndex)]_vars

(* C26: every task id is in at most one row, and a row write issued for an  *)
(* id (the whole row by updateTask, the order cell by updateTaskOrders)     *)
(* lands on a row whose ID cell holds that id.                              *)
C26_WritesLandOnOwnRow ==
    [][/\ OneRowPerId(remote')
       /\ \A c \in pending :
             (c.k = "sheet" /\ c.fn \in {"updateTask", "updateTaskStatus"}
                /\ c.pc = "update" /\ pending' = pending \ {c})
             => RowHolds(remote, c.rowIndex, c.id)
       /\ \A c \in pending :
             (c.k = "sheet" /\ c.fn = "updateTaskOrders" /\ c \notin pending')
             => \E w \in c.writes :
                   /\ RowHolds(remote, w[1], w[3])
                   /\ remote' = UpdateOrderAt(remote, w[1], w[2])]_vars

-----------------------------------------------------------------------------
(* the remote calls of a reorder that write the status of the moved task *)
StatusWrites == {"updateTaskStatus", "updateTask"}

(* the first remote call of a reorder: c is issued by the handler with the  *)
(* new list in place and the order batch holding the destination column     *)
ReorderIssued(c) ==
    /\ AppliedTo(tasks', c)
    /\ {c.col[i].id : i \in DOMAIN c.col} =
         {tasks'[i].id : i \in {j \in DOMAIN tasks' : tasks'[j].status = c.st}}

(* the order batch c follows the status write of the same reorder, which    *)
(* has just landed                                                          *)
AfterStatusWrite(c) ==
    \E d \in pending :
        /\ d.k \in StatusWrites
        /\ c = [d EXCEPT !.k = "updateTaskOrders"]
        /\ pending' = (pending \ {d}) \cup {c}
        /\ find(remote', c.id).status = c.st

(* a call of a reorder fails: the refresh is asked for, the sheet keeps     *)
(* what was written                                                         *)
ReorderCallFailed(d) ==
    /\ d \in pending
    /\ d \notin pending'
    /\ d.k # "load"
    /\ d.op = "reorder"
    /\ last'.op \in {"updateTaskStatusFail", "updateTaskFail", "updateTaskOrdersFail"}

(* the order of the calls of a reorder, the first call left open *)
ReorderCallsInOrder ==
    /\ \A c \in pending' \ pending :
          (c.k # "load" /\ c.op = "reorder")
          => \/ Issues(c) /\ ReorderIssued(c)
             \/ c.k = "updateTaskOrders" /\ AfterStatusWrite(c)
    /\ \A d \in pending :
          ReorderCallFailed(d)
          => /\ remote' = remote
             /\ \E l \in pending' : l.k = "load" /\ l.snap = getTasks(remote)

(* C27 as claimed: the calls of a reorder are issued after the list was     *)
(* updated; the status write is issued only when the destination status     *)
(* differs from the source status and the order batch, which holds exactly  *)
(* the destination column, only after the status write has landed; a call   *)
(* that fails asks for a refresh and rolls nothing back on the sheet.       *)
C27_StatusThenOrders ==
    [][/\ ReorderCallsInOrder
       /\ \A c \in pending' :
             (Issues(c) /\ c.op = "reorder")
             => c.k \in (IF find(tasks, c.id).status # c.st
                         THEN StatusWrites ELSE {"updateTaskOrders"})]_vars

(* C27 as amended: the same, but the status write is issued only when the   *)
(* status differs by the first App, and for every accepted reorder (as a    *)
(* write of the whole row of the moved task) by the second App.             *)
C27_StatusThenOrdersPerApp ==
    [][/\ ReorderCallsInOrder
       /\ \A c \in pending' :
             (Issues(c) /\ c.op = "reorder")
             => c.k = (CASE app = 2 -> "updateTask"
                         [] find(tasks, c.id).status # c.st -> "updateTaskStatus"
                         [] OTHER -> "updateTaskOrders")]_vars

(* the order batch of a reorder across columns has landed after its status  *)
(* write                                                                    *)
C27_Witness ==
    /\ last.op = "updateTaskOrdersLand"
    /\ last.res = "reorder"
    /\ find(remote, last.id).status = last.st
    /\ find(remote, last.id).status # NOT_STARTED
    /\ find(tasks, last.id).status = last.st

-----------------------------------------------------------------------------
(* no task of the list ts is started while the task its predecessorTaskId   *)
(* resolves to is not completed                                             *)
Gated(ts) ==
    \A i \in DOMAIN ts :
        (ts[i].status \in {IN_PROGRESS, COMPLETED} /\ ts[i].pred # None
           /\ find(ts, ts[i].pred) # NoTask)
        => find(ts, ts[i].pred).status = COMPLETED

(* C28: an accepted move, reorder or save made on a task list in which no   *)
(* started task has an unfinished predecessor leaves such a list; moving a  *)
(* predecessor back from COMPLETED does not leave a dependent started.      *)
C28_StartedOnlyAfterPredecessor ==
    [][(Gated(tasks) /\ tasks' # tasks /\ last'.op \in {"move", "reorder", "save"})
       => Gated(tasks')]_vars

-----------------------------------------------------------------------------
(* C29: once the callback of handleSignOut has cleared the task list and    *)
(* the current user, the list stays empty (no sign-in follows here): a      *)
(* refresh that was in flight does not fill it again and the interval       *)
(* issues no further refresh.                                               *)
C29_EmptyAfterSignOut ==
    [][(~isSignedIn)
       => /\ tasks' = << >>
          /\ \A l \in pending' \ pending : l.k # "load"]_vars

-----------------------------------------------------------------------------
(* C30: at most one token request of ensureAuth is in flight, and when the  *)
(* token callback fires, with a token or with any error, every waiting      *)
(* ensureAuth call returns and refreshResolver is null again.               *)
C30_RefreshReleasesCallers ==
    [][/\ requests' <= 1
       /\ (requests' = requests - 1)
          => /\ refreshResolver' = Null
             /\ \A c \in Callers : callers'[c] # "waiting"]_vars

=============================================================================
